---- MODULE Spec2Model ----
(***************************************************************************)
(* GraphQL query complexity: the evaluator of complexity.go over the AST   *)
(* produced by the parser, with the literal and argument-list parsing of   *)
(* internal/common.                                                        *)
(*                                                                         *)
(* Text is a sequence of lexical chunks: a digit, a sign and a dot are one *)
(* chunk each, an identifier is one chunk, a quoted string is its two       *)
(* quotes around one chunk.  Go's int is 64 bits wide; every number of     *)
(* this model stays far below that width, so arithmetic is the unbounded   *)
(* one.                                                                    *)
(***************************************************************************)
EXTENDS Integers, Sequences, FiniteSets, TLC

\* complexity.go, const block
connectionComplexity == 2
objectComplexity == 1
mutationComplexity == 10

\* ---- bounds --------------------------------------------------------------
\* largest integer literal / runtime number used as a pagination count
MaxCount == 2
\* largest override value
MaxOverride == 3
\* number of wrappers around the focus selection of a generated document
MaxDepth == 2
\* number of operations of a multi-operation document
MaxOps == 2
\* frames of calculateSelectionComplexity the runtime stack holds
MaxStack == 16
\* comment lines before the description of a lexer source
MaxComments == 2
\* fragment definitions of a fragment document
MaxFragments == 2

\* ---- results: Go's (int, error) -------------------------------------------
NoError == <<>>
Ret(v, e) == [val |-> v, err |-> e]
\* the goroutine stack limit is exceeded: the process dies, nothing is returned
StackOverflow == <<"fatal error: stack overflow">>

\* ---- strconv ---------------------------------------------------------------
Digits == <<"0", "1", "2", "3", "4", "5", "6", "7", "8", "9">>
IsDigit(c) == \E i \in 1..10 : Digits[i] = c
DigitVal(c) == (CHOOSE i \in 1..10 : Digits[i] = c) - 1

RECURSIVE DecimalValue(_, _)
DecimalValue(text, acc) ==
  IF text = <<>> THEN acc
  ELSE DecimalValue(Tail(text), (10 * acc) + DigitVal(Head(text)))

\* strconv.Atoi / strconv.ParseInt(s, 10, 64): an optional sign and then only
\* decimal digits, at least one; anything else is a syntax error with value 0
Atoi(text) ==
  LET signed == text # <<>> /\ Head(text) \in {"+", "-"}
      body == IF signed THEN Tail(text) ELSE text
      ok == body # <<>> /\ \A i \in 1..Len(body) : IsDigit(body[i])
  IN  IF ~ok THEN [val |-> 0, ok |-> FALSE]
      ELSE [val |-> IF signed /\ Head(text) = "-"
                      THEN 0 - DecimalValue(body, 0)
                      ELSE DecimalValue(body, 0),
            ok |-> TRUE]

\* the text of a decimal integer, as the scanner hands it over
RECURSIVE NatText(_)
NatText(n) ==
  IF n < 10 THEN <<Digits[n + 1]>>
  ELSE NatText(n \div 10) \o <<Digits[(n % 10) + 1]>>

\* ---- tokens and values ------------------------------------------------------
\* a token of the scanner: its kind (Ident, Int, Float, String, or the
\* punctuation rune itself) and its text
Tok(type, text) == [type |-> type, text |-> text]
Punct(c) == Tok(c, <<c>>)
IdentTok(name) == Tok("Ident", <<name>>)
IntTok(n) == Tok("Int", NatText(n))

\* types.Value: Variable, PrimitiveValue, NullValue, ListValue, ObjectValue
PrimitiveValue(type, text) ==
  [kind |-> "PrimitiveValue", type |-> type, text |-> text, name |-> "", items |-> <<>>]
Variable(name) ==
  [kind |-> "Variable", type |-> "", text |-> <<>>, name |-> name, items |-> <<>>]
NullValue ==
  [kind |-> "NullValue", type |-> "", text |-> <<>>, name |-> "", items |-> <<>>]
ListValue(items) ==
  [kind |-> "ListValue", type |-> "", text |-> <<>>, name |-> "", items |-> items]
ObjectValue(fields) ==
  [kind |-> "ObjectValue", type |-> "", text |-> <<>>, name |-> "", items |-> fields]
\* an argument, an object field, a list item
Named(name, value) == [name |-> name, value |-> value]

\* ---- lexer (the parts the value parser uses) ---------------------------------
\* Lexer.Peek: the kind of the next token, EOF at the end of the input
Peek(toks) == IF toks = <<>> THEN "EOF" ELSE Head(toks).type
\* scanner.TokenText of the next token
TokenText(toks) == IF toks = <<>> THEN <<>> ELSE Head(toks).text
\* what follows the next token (ConsumeWhitespace moves on to it)
Advance(toks) == IF toks = <<>> THEN <<>> ELSE Tail(toks)
SyntaxError(message) == <<"syntax error: ", message>>
\* the outcome of a parsing step: a value, the tokens left, an error or NoError
Parsed(value, rest, err) == [value |-> value, rest |-> rest, err |-> err]

\* Lexer.ConsumeToken
ConsumeToken(toks, expected) ==
  IF Peek(toks) # expected
    THEN Parsed(NullValue, toks, SyntaxError("unexpected token"))
    ELSE Parsed(NullValue, Advance(toks), NoError)

\* Lexer.ConsumeLiteral: the next token, whatever its kind, becomes a
\* PrimitiveValue of that kind
ConsumeLiteral(toks) ==
  Parsed(PrimitiveValue(Peek(toks), TokenText(toks)), Advance(toks), NoError)

\* ParseLiteral, the case '-': the sign is put before the text of whatever
\* ConsumeLiteral returns
NegativeLiteral(toks) ==
  LET lit == ConsumeLiteral(Advance(toks))
  IN  Parsed(PrimitiveValue(lit.value.type, <<"-">> \o lit.value.text), lit.rest, NoError)

RECURSIVE ParseLiteral(_, _)
RECURSIVE ParseListItems(_, _, _)
RECURSIVE ParseObjectFields(_, _, _)

\* ParseLiteral, the loop of the case '['
ParseListItems(toks, constOnly, list) ==
  IF Peek(toks) = "]" THEN Parsed(ListValue(list), Advance(toks), NoError)
  ELSE LET v == ParseLiteral(toks, constOnly)
       IN  IF v.err # NoError THEN v
           ELSE ParseListItems(v.rest, constOnly, Append(list, Named("", v.value)))

\* ParseLiteral, the loop of the case '{'
ParseObjectFields(toks, constOnly, fields) ==
  IF Peek(toks) = "}" THEN Parsed(ObjectValue(fields), Advance(toks), NoError)
  ELSE IF Peek(toks) # "Ident"
    THEN Parsed(NullValue, toks, SyntaxError("unexpected token"))
  ELSE LET name == TokenText(toks)[1]
           colon == ConsumeToken(Advance(toks), ":")
       IN  IF colon.err # NoError THEN colon
           ELSE LET v == ParseLiteral(colon.rest, constOnly)
                IN  IF v.err # NoError THEN v
                    ELSE ParseObjectFields(v.rest, constOnly,
                                           Append(fields, Named(name, v.value)))

ParseLiteral(toks, constOnly) ==
  CASE Peek(toks) = "$" ->
         IF constOnly THEN Parsed(NullValue, toks, SyntaxError("variable not allowed"))
         ELSE IF Peek(Advance(toks)) # "Ident"
           THEN Parsed(NullValue, Advance(toks), SyntaxError("unexpected token"))
         ELSE Parsed(Variable(TokenText(Advance(toks))[1]), Advance(Advance(toks)), NoError)
    [] Peek(toks) \in {"Int", "Float", "String", "Ident"} ->
         LET lit == ConsumeLiteral(toks)
         IN  IF lit.value.type = "Ident" /\ lit.value.text = <<"null">>
               THEN Parsed(NullValue, lit.rest, NoError)
               ELSE lit
    [] Peek(toks) = "-" -> NegativeLiteral(toks)
    [] Peek(toks) = "[" -> ParseListItems(Advance(toks), constOnly, <<>>)
    [] Peek(toks) = "{" -> ParseObjectFields(Advance(toks), constOnly, <<>>)
    [] OTHER -> Parsed(NullValue, toks, SyntaxError("invalid value"))

\* ParseArgumentList: '(' (Ident ':' Value)* ')'
RECURSIVE ParseArguments(_, _)
ParseArguments(toks, args) ==
  IF Peek(toks) = ")" THEN [args |-> args, rest |-> Advance(toks), err |-> NoError]
  ELSE IF Peek(toks) # "Ident"
    THEN [args |-> <<>>, rest |-> toks, err |-> SyntaxError("unexpected token")]
  ELSE LET name == TokenText(toks)[1]
           colon == ConsumeToken(Advance(toks), ":")
       IN  IF colon.err # NoError
             THEN [args |-> <<>>, rest |-> colon.rest, err |-> colon.err]
           ELSE LET v == ParseLiteral(colon.rest, FALSE)
                IN  IF v.err # NoError
                      THEN [args |-> <<>>, rest |-> v.rest, err |-> v.err]
                    ELSE ParseArguments(v.rest, Append(args, Named(name, v.value)))

ParseArgumentList(toks) ==
  IF Peek(toks) # "("
    THEN [args |-> <<>>, rest |-> toks, err |-> SyntaxError("unexpected token")]
    ELSE ParseArguments(Advance(toks), <<>>)

\* ---- text/scanner, on the characters the sources of this model are made of ------
\* a source is a sequence of characters
WhitespaceChars == {" ", "\t", "\n", "\r"}
Letters == {"a", "b", "e", "p", "t", "y", "_"}
\* what bytes.Buffer.WriteRune writes for the rune scanner.EOF
ReplacementChar == "U+FFFD"

RECURSIVE SkipWhitespace(_)
SkipWhitespace(src) ==
  IF src # <<>> /\ Head(src) \in WhitespaceChars THEN SkipWhitespace(Tail(src)) ELSE src

\* the longest prefix of src made of the characters of set
RECURSIVE RunOf(_, _)
RunOf(src, set) ==
  IF src # <<>> /\ Head(src) \in set THEN <<Head(src)>> \o RunOf(Tail(src), set) ELSE <<>>
Drop(src, n) == SubSeq(src, n + 1, Len(src))

Scanned(type, text, rest, err) == [type |-> type, text |-> text, rest |-> rest, err |-> err]

\* Scanner.scanString: src follows the opening quote, text is the token so far
RECURSIVE ScanString(_, _)
ScanString(src, text) ==
  IF src = <<>> \/ Head(src) = "\n"
    THEN Scanned("String", text, src, <<"literal not terminated">>)
  ELSE IF Head(src) = "\""
    THEN Scanned("String", Append(text, "\""), Tail(src), NoError)
  ELSE IF Head(src) = "\\"
    THEN IF Len(src) >= 2 /\ src[2] \in {"\"", "\\", "n"}
           THEN ScanString(Drop(src, 2), text \o <<"\\", src[2]>>)
           ELSE Scanned("String", text, Tail(src), <<"invalid char escape">>)
  ELSE ScanString(Tail(src), Append(text, Head(src)))

\* Scanner.Scan with the mode of NewLexer: white space is skipped, then an
\* identifier, an integer, a string or one character is the token
Scan(src) ==
  LET s == SkipWhitespace(src)
  IN  IF s = <<>> THEN Scanned("EOF", <<>>, <<>>, NoError)
      ELSE IF Head(s) \in Letters
        THEN LET text == RunOf(s, Letters \cup {Digits[i] : i \in 1..10})
             IN  Scanned("Ident", text, Drop(s, Len(text)), NoError)
      ELSE IF IsDigit(Head(s))
        THEN LET text == RunOf(s, {Digits[i] : i \in 1..10})
             IN  Scanned("Int", text, Drop(s, Len(text)), NoError)
      ELSE IF Head(s) = "\"" THEN ScanString(Tail(s), <<"\"">>)
      ELSE Scanned(Head(s), <<Head(s)>>, Tail(s), NoError)

\* strconv.Unquote of the text of a String token: the quotes go, the escapes
\* are resolved
RECURSIVE Unescape(_)
Unescape(body) ==
  IF body = <<>> THEN <<>>
  ELSE IF Head(body) = "\\" /\ Len(body) >= 2
    THEN <<IF body[2] = "n" THEN "\n" ELSE body[2]>> \o Unescape(Drop(body, 2))
  ELSE <<Head(body)>> \o Unescape(Tail(body))
Unquote(text) == Unescape(SubSeq(text, 2, Len(text) - 1))

\* ---- blockString (parsedirectives.go) ----------------------------------------------
\* strings.Split(raw, "\n")
RECURSIVE SplitLines(_, _)
SplitLines(raw, line) ==
  IF raw = <<>> THEN <<line>>
  ELSE IF Head(raw) = "\n" THEN <<line>> \o SplitLines(Tail(raw), <<>>)
  ELSE SplitLines(Tail(raw), Append(line, Head(raw)))
\* strings.Join(lines, "\n")
RECURSIVE JoinLines(_)
JoinLines(lines) ==
  IF lines = <<>> THEN <<>>
  ELSE IF Len(lines) = 1 THEN lines[1]
  ELSE lines[1] \o <<"\n">> \o JoinLines(Tail(lines))

leadingWhitespace(s) == Len(RunOf(s, {"\t", " "}))
isBlank(s) == Len(s) = 0 \/ leadingWhitespace(s) = Len(s)

\* blockStringIndentation: the least indentation of the lines after the
\* first that are not blank; 0 as soon as one of them has none
blockStringIndentation(lines) ==
  LET counted == {i \in 2..Len(lines) : leadingWhitespace(lines[i]) # Len(lines[i])}
  IN  IF counted = {} THEN 0
      ELSE IF \E i \in counted : leadingWhitespace(lines[i]) = 0 THEN 0
      ELSE LET i == CHOOSE k \in counted :
                      \A j \in counted : leadingWhitespace(lines[k]) <= leadingWhitespace(lines[j])
           IN  leadingWhitespace(lines[i])

blockString(raw) ==
  LET lines == SplitLines(raw, <<>>)
      ind == blockStringIndentation(lines)
      dedented == [i \in 1..Len(lines) |->
                     IF ind > 0 /\ i > 1
                       THEN IF Len(lines[i]) < ind THEN <<>> ELSE Drop(lines[i], ind)
                       ELSE lines[i]]
      blankUpTo(k) == \A i \in 1..k : isBlank(dedented[i])
      trimStart == IF blankUpTo(Len(dedented)) THEN Len(dedented)
                   ELSE (CHOOSE k \in 1..Len(dedented) :
                           ~isBlank(dedented[k]) /\ blankUpTo(k - 1)) - 1
      started == Drop(dedented, trimStart)
      blankFrom(k) == \A i \in k..Len(started) : isBlank(started[i])
      trimEnd == IF started = <<>> THEN 0
                 ELSE Len(started)
                        - (CHOOSE k \in 1..Len(started) :
                             blankFrom(k + 1) /\ (k = 1 \/ ~isBlank(started[k])))
  IN  JoinLines(SubSeq(started, 1, Len(started) - trimEnd))

\* ---- Lexer (lexer.go), on characters -------------------------------------------------
\* the Lexer: sc is what the scanner has not read yet, next and text the
\* token it is at, err the syntax error it has panicked with
NewLexer(s, useStringDescriptions) ==
  [sc |-> s, next |-> "", text |-> <<>>, comment |-> <<>>,
   useStringDescriptions |-> useStringDescriptions, err |-> NoError]

\* consumeComment: sc is just behind the '#'
consumeComment(l) ==
  LET body == IF l.sc # <<>> /\ Head(l.sc) = " " THEN Tail(l.sc) ELSE l.sc
      buf == IF Len(l.comment) > 0 THEN Append(l.comment, "\n") ELSE l.comment
      line == RunOf(body, {c \in {body[i] : i \in 1..Len(body)} : c \notin {"\r", "\n"}})
  IN  [l EXCEPT !.sc = Drop(body, Len(line) + 1), !.comment = buf \o line]

\* ConsumeWhitespace, the loop
RECURSIVE ConsumeWhitespaceLoop(_)
ConsumeWhitespaceLoop(l) ==
  LET t == Scan(l.sc)
      at == [l EXCEPT !.sc = t.rest, !.next = t.type, !.text = t.text]
  IN  IF t.err # NoError THEN [at EXCEPT !.err = SyntaxError(t.err)]
      ELSE IF t.type = "," THEN ConsumeWhitespaceLoop(at)
      ELSE IF t.type = "#" THEN ConsumeWhitespaceLoop(consumeComment(at))
      ELSE at
ConsumeWhitespace(l) == ConsumeWhitespaceLoop([l EXCEPT !.comment = <<>>])

\* a description and the lexer behind it
Described(desc, l) == [desc |-> desc, l |-> l]

\* consumeTripleQuoteComment, the loop: the characters up to three quotes in
\* a row or to the end of the source
RECURSIVE TripleQuoteLoop(_, _, _)
TripleQuoteLoop(src, buf, numQuotes) ==
  IF src = <<>>
    THEN [buf |-> Append(buf, ReplacementChar), numQuotes |-> 0, rest |-> <<>>]
  ELSE LET n == IF Head(src) = "\"" THEN numQuotes + 1 ELSE 0
       IN  IF n = 3 THEN [buf |-> Append(buf, Head(src)), numQuotes |-> n, rest |-> Tail(src)]
           ELSE TripleQuoteLoop(Tail(src), Append(buf, Head(src)), n)
\* consumeTripleQuoteComment: sc is at the third quote
consumeTripleQuoteComment(l) ==
  LET read == TripleQuoteLoop(Tail(l.sc), <<>>, 0)
      val == SubSeq(read.buf, 1, Len(read.buf) - read.numQuotes)
  IN  Described(blockString(val), [l EXCEPT !.sc = read.rest, !.next = "\""])
consumeStringComment(l) == Described(Unquote(l.text), l)

consumeDescription(l) ==
  IF l.next # "String" THEN Described(<<>>, l)
  ELSE LET d == IF l.sc # <<>> /\ Head(l.sc) = "\""
                  THEN consumeTripleQuoteComment(l)
                  ELSE consumeStringComment(l)
       IN  Described(d.desc, ConsumeWhitespace(d.l))

\* the buffer is returned whenever it is not empty
DescComment_m(l) ==
  LET desc == consumeDescription(l)
  IN  IF l.useStringDescriptions /\ l.comment = <<>> THEN desc
      ELSE Described(l.comment, desc.l)
\* DescComment
DescComment(l) ==
  LET comment == l.comment
      desc == consumeDescription(l)
  IN  IF l.useStringDescriptions THEN desc ELSE Described(comment, desc.l)

\* ---- the AST the evaluator walks --------------------------------------------
\* types.Field; hasSel is SelectionSet != nil (a leaf has none)
Field(name, args, sels) ==
  [kind |-> "Field", name |-> name, args |-> args, hasSel |-> TRUE, sels |-> sels]
Leaf(name, args) ==
  [kind |-> "Field", name |-> name, args |-> args, hasSel |-> FALSE, sels |-> <<>>]
\* types.FragmentSpread
FragmentSpread(name) ==
  [kind |-> "FragmentSpread", name |-> name, args |-> <<>>, hasSel |-> FALSE, sels |-> <<>>]
\* types.InlineFragment; sels is Fragment.Selections
InlineFragment(sels) ==
  [kind |-> "InlineFragment", name |-> "", args |-> <<>>, hasSel |-> TRUE, sels |-> sels]
\* types.FragmentDefinition and types.OperationDefinition
FragmentDefinition(name, sels) == [name |-> name, sels |-> sels]
Operation(type, sels) == [type |-> type, sels |-> sels]
\* types.ExecutableDefinition
ExecutableDefinition(operations, fragments) ==
  [operations |-> operations, fragments |-> fragments]

\* ---- runtime values of the variables mapping ---------------------------------
\* a map[string]interface{} value: its dynamic type, its text (json.Number,
\* string) and its number times Scale (float64, float32, int)
Scale == 10
JsonNumber(text) == [type |-> "json.Number", text |-> text, scaled |-> 0]
Float64(scaled) == [type |-> "float64", text |-> <<>>, scaled |-> scaled]
Float32(scaled) == [type |-> "float32", text |-> <<>>, scaled |-> scaled]
NativeInt(n) == [type |-> "int", text |-> <<>>, scaled |-> n * Scale]
StringValue(text) == [type |-> "string", text |-> text, scaled |-> 0]
\* Go's int(f) of a float: truncation toward zero
Truncate(scaled) ==
  IF scaled >= 0 THEN scaled \div Scale ELSE 0 - ((0 - scaled) \div Scale)
EmptyMap == [name \in {} |-> 0]

\* ---- complexity.go -----------------------------------------------------------
\* queryState
QueryState(variables, fieldOverrides, fragUsed) ==
  [variables |-> variables, fieldOverrides |-> fieldOverrides, fragUsed |-> fragUsed]

\* isOverride
isOverride(fieldName, fieldOverrides) == fieldName \in DOMAIN fieldOverrides

IsPaginationArg(a) == a.name = "first" \/ a.name = "last"

\* any argument makes a connection
isConnection_m(args) == Len(args) > 0
\* isConnection
isConnection(args) == \E i \in 1..Len(args) : IsPaginationArg(args[i])

\* fmt.Errorf("Variable %s not defined", a.Name.Name)
UndefinedVariable(a) == <<"Variable ", a.name, " not defined">>

\* a value of any other type is read as decimal text
VariableItemCount_m(variableValue) ==
  CASE variableValue.type = "json.Number" ->
         LET value == Atoi(variableValue.text)
         IN  IF value.ok THEN value.val ELSE 0
    [] variableValue.type = "float64" -> Truncate(variableValue.scaled)
    [] variableValue.type = "float32" -> Truncate(variableValue.scaled)
    [] OTHER -> Atoi(variableValue.text).val
\* getConnectionNodeCount, the type switch on the runtime value of a variable
VariableItemCount(variableValue) ==
  CASE variableValue.type = "json.Number" ->
         LET value == Atoi(variableValue.text)
         IN  IF value.ok THEN value.val ELSE 0
    [] variableValue.type = "float64" -> Truncate(variableValue.scaled)
    [] variableValue.type = "float32" -> Truncate(variableValue.scaled)
    [] OTHER -> 0

\* the lookup of the variable is not checked
ArgumentItemCount_m(a, variables) ==
  CASE a.value.kind = "PrimitiveValue" -> Ret(Atoi(a.value.text).val, NoError)
    [] a.value.kind = "Variable" ->
         IF a.value.name \notin DOMAIN variables
           THEN Ret(0, NoError)
           ELSE Ret(VariableItemCount(variables[a.value.name]), NoError)
    [] OTHER -> Ret(0, NoError)
\* getConnectionNodeCount, the body of the loop for a first/last argument
ArgumentItemCount(a, variables) ==
  CASE a.value.kind = "PrimitiveValue" -> Ret(Atoi(a.value.text).val, NoError)
    [] a.value.kind = "Variable" ->
         IF a.value.name \notin DOMAIN variables
           THEN Ret(0, UndefinedVariable(a))
           ELSE Ret(VariableItemCount(variables[a.value.name]), NoError)
    [] OTHER -> Ret(0, NoError)

\* the last argument named first or last decides
getConnectionNodeCount_m(args, variables) ==
  IF \E i \in 1..Len(args) : IsPaginationArg(args[i])
    THEN LET i == CHOOSE k \in 1..Len(args) :
                    /\ IsPaginationArg(args[k])
                    /\ \A j \in (k + 1)..Len(args) : ~IsPaginationArg(args[j])
         IN  ArgumentItemCount(args[i], variables)
    ELSE Ret(0, NoError)
\* getConnectionNodeCount: the first argument named first or last decides
getConnectionNodeCount(args, variables) ==
  IF \E i \in 1..Len(args) : IsPaginationArg(args[i])
    THEN LET i == CHOOSE k \in 1..Len(args) :
                    /\ IsPaginationArg(args[k])
                    /\ \A j \in 1..(k - 1) : ~IsPaginationArg(args[j])
         IN  ArgumentItemCount(args[i], variables)
    ELSE Ret(0, NoError)

\* the overhead is multiplied with the count
ConnectionCost_m(itemCount, c) == itemCount * (c + connectionComplexity)
\* line 100: what a connection adds
ConnectionCost(itemCount, c) == (itemCount * c) + connectionComplexity
\* the object overhead is left out
ObjectCost_m(c) == c
\* line 107: what an object field adds
ObjectCost(c) == c + objectComplexity

RECURSIVE calculateSelectionComplexity(_, _, _)

\* the connection rule is tried before the rules for pageInfo and edges
FieldComplexity_m(sel, state, depth) ==
  IF isOverride(sel.name, state.fieldOverrides)
    THEN Ret(state.fieldOverrides[sel.name], NoError)
  ELSE IF isConnection(sel.args)
    THEN LET c == calculateSelectionComplexity(sel.sels, state, depth + 1)
         IN  IF c.err # NoError THEN Ret(0, c.err)
             ELSE LET itemCount == getConnectionNodeCount(sel.args, state.variables)
                  IN  IF itemCount.err # NoError THEN Ret(0, itemCount.err)
                      ELSE Ret(ConnectionCost(itemCount.val, c.val), NoError)
  ELSE IF sel.name = "pageInfo" THEN Ret(0, NoError)
  ELSE IF sel.name = "edges" THEN calculateSelectionComplexity(sel.sels, state, depth + 1)
  ELSE IF sel.hasSel
    THEN LET c == calculateSelectionComplexity(sel.sels, state, depth + 1)
         IN  IF c.err # NoError THEN Ret(0, c.err)
             ELSE Ret(ObjectCost(c.val), NoError)
  ELSE Ret(0, NoError)
\* calculateSelectionComplexity, case *types.Field
FieldComplexity(sel, state, depth) ==
  IF isOverride(sel.name, state.fieldOverrides)
    THEN Ret(state.fieldOverrides[sel.name], NoError)
  ELSE IF sel.name = "pageInfo" THEN Ret(0, NoError)
  ELSE IF sel.name = "edges" THEN calculateSelectionComplexity(sel.sels, state, depth + 1)
  ELSE IF isConnection(sel.args)
    THEN LET c == calculateSelectionComplexity(sel.sels, state, depth + 1)
         IN  IF c.err # NoError THEN Ret(0, c.err)
             ELSE LET itemCount == getConnectionNodeCount(sel.args, state.variables)
                  IN  IF itemCount.err # NoError THEN Ret(0, itemCount.err)
                      ELSE Ret(ConnectionCost(itemCount.val, c.val), NoError)
  ELSE IF sel.hasSel
    THEN LET c == calculateSelectionComplexity(sel.sels, state, depth + 1)
         IN  IF c.err # NoError THEN Ret(0, c.err)
             ELSE Ret(ObjectCost(c.val), NoError)
  ELSE Ret(0, NoError)

\* a fragment that spreads itself among its own selections is not followed
SelectionComplexity_m(sel, state, depth) ==
  CASE sel.kind = "Field" -> FieldComplexity(sel, state, depth)
    [] sel.kind = "FragmentSpread" ->
         IF /\ sel.name \in DOMAIN state.fragUsed
            /\ \A i \in 1..Len(state.fragUsed[sel.name]) :
                 state.fragUsed[sel.name][i] # sel
           THEN calculateSelectionComplexity(state.fragUsed[sel.name], state, depth + 1)
           ELSE Ret(0, NoError)
    [] sel.kind = "InlineFragment" ->
         calculateSelectionComplexity(sel.sels, state, depth + 1)
\* calculateSelectionComplexity, the body of the loop: what sel adds
SelectionComplexity(sel, state, depth) ==
  CASE sel.kind = "Field" -> FieldComplexity(sel, state, depth)
    [] sel.kind = "FragmentSpread" ->
         IF sel.name \in DOMAIN state.fragUsed
           THEN calculateSelectionComplexity(state.fragUsed[sel.name], state, depth + 1)
           ELSE Ret(0, NoError)
    [] sel.kind = "InlineFragment" ->
         calculateSelectionComplexity(sel.sels, state, depth + 1)

\* calculateSelectionComplexity, the loop over sels from index i on
RECURSIVE SelectionLoop(_, _, _, _, _)
SelectionLoop(sels, i, complexity, state, depth) ==
  IF i > Len(sels) THEN Ret(complexity, NoError)
  ELSE LET c == SelectionComplexity(sels[i], state, depth)
       IN  IF c.err # NoError THEN Ret(0, c.err)
           ELSE SelectionLoop(sels, i + 1, complexity + c.val, state, depth)

\* depth counts the frames of this function on the stack; Go ends the
\* process when the stack limit is passed
calculateSelectionComplexity(sels, state, depth) ==
  IF depth > MaxStack THEN Ret(0, StackOverflow)
  ELSE SelectionLoop(sels, 1, 0, state, depth)

\* an inline fragment under a top-level field is scored as in a query
MutationChildComplexity_inline(y, state) ==
  CASE y.kind = "Field" -> calculateSelectionComplexity(y.sels, state, 1)
    [] y.kind = "FragmentSpread" ->
         IF y.name \in DOMAIN state.fragUsed
           THEN calculateSelectionComplexity(state.fragUsed[y.name], state, 1)
           ELSE Ret(0, NoError)
    [] OTHER -> calculateSelectionComplexity(y.sels, state, 1)
\* the child itself is scored, with its own overhead
MutationChildComplexity_m(y, state) == calculateSelectionComplexity(<<y>>, state, 1)
\* calculateMutationComplexity, the inner switch: what child y of a
\* top-level field adds
MutationChildComplexity(y, state) ==
  CASE y.kind = "Field" -> calculateSelectionComplexity(y.sels, state, 1)
    [] y.kind = "FragmentSpread" ->
         IF y.name \in DOMAIN state.fragUsed
           THEN calculateSelectionComplexity(state.fragUsed[y.name], state, 1)
           ELSE Ret(0, NoError)
    [] OTHER -> Ret(0, NoError)

\* calculateMutationComplexity, the inner loop over sel.SelectionSet
RECURSIVE MutationChildLoop(_, _, _, _)
MutationChildLoop(children, j, complexity, state) ==
  IF j > Len(children) THEN Ret(complexity, NoError)
  ELSE LET c == MutationChildComplexity(children[j], state)
       IN  IF c.err # NoError THEN Ret(0, c.err)
           ELSE MutationChildLoop(children, j + 1, complexity + c.val, state)

\* calculateMutationComplexity, the outer loop over sels
RECURSIVE MutationLoop(_, _, _, _)
MutationLoop(sels, i, complexity, state) ==
  IF i > Len(sels) THEN Ret(complexity, NoError)
  ELSE IF sels[i].kind = "Field"
    THEN LET c == MutationChildLoop(sels[i].sels, 1, complexity, state)
         IN  IF c.err # NoError THEN Ret(0, c.err)
             ELSE MutationLoop(sels, i + 1, c.val, state)
  ELSE MutationLoop(sels, i + 1, complexity, state)

calculateMutationComplexity(sels, state) ==
  MutationLoop(sels, 1, mutationComplexity, state)

\* the first definition of a name stays
RECURSIVE BuildFragUsed_m(_, _)
BuildFragUsed_m(fragments, fragUsed) ==
  IF fragments = <<>> THEN fragUsed
  ELSE BuildFragUsed_m(Tail(fragments),
         [name \in DOMAIN fragUsed \cup {Head(fragments).name} |->
            IF name \in DOMAIN fragUsed THEN fragUsed[name]
            ELSE Head(fragments).sels])
\* GetQueryComplexity, the loop that fills fragUsed: a later definition of a
\* name overwrites an earlier one
RECURSIVE BuildFragUsed(_, _)
BuildFragUsed(fragments, fragUsed) ==
  IF fragments = <<>> THEN fragUsed
  ELSE BuildFragUsed(Tail(fragments),
         [name \in DOMAIN fragUsed \cup {Head(fragments).name} |->
            IF name = Head(fragments).name THEN Head(fragments).sels
            ELSE fragUsed[name]])

EmptyRegistry == [name \in {} |-> <<>>]

\* GetQueryComplexity, the switch on op.Type
OperationComplexity(op, st) ==
  CASE op.type = "query" -> calculateSelectionComplexity(op.sels, st, 1)
    [] op.type = "mutation" -> calculateMutationComplexity(op.sels, st)
    [] OTHER -> Ret(0, NoError)

\* GetQueryComplexity, the loop over the operations from index i on
RECURSIVE OperationLoop(_, _, _, _)
OperationLoop(ops, i, total, st) ==
  IF i > Len(ops) THEN Ret(total, NoError)
  ELSE LET c == OperationComplexity(ops[i], st)
       IN  IF c.err # NoError THEN Ret(0, c.err)
           ELSE OperationLoop(ops, i + 1, total + c.val, st)

\* GetQueryComplexity on a parsed document, as one function
GetQueryComplexity(executableDefinition, vs, overrides) ==
  OperationLoop(executableDefinition.operations, 1, 0,
                QueryState(vs, overrides,
                           BuildFragUsed(executableDefinition.fragments, EmptyRegistry)))

\* ---- inputs: the documents of complexity_test.go ------------------------------
\* the arguments the parser builds from the tokens between '(' and ')'
Args(toks) == ParseArgumentList(<<Punct("(")>> \o toks \o <<Punct(")")>>).args
NoArgs == <<>>
ArgToks(name, valueToks) == <<IdentTok(name), Punct(":")>> \o valueToks
\* the text of a String token keeps its quotes
StringTok(s) == Tok("String", <<"\"", s, "\"">>)
Input(doc, variables, fieldOverrides) ==
  [doc |-> doc, variables |-> variables, fieldOverrides |-> fieldOverrides]
QueryDoc(sels) == ExecutableDefinition(<<Operation("query", sels)>>, <<>>)
MutationDoc(sels) == ExecutableDefinition(<<Operation("mutation", sels)>>, <<>>)

FirstAndSort(valueToks) ==
  Args(ArgToks("first", valueToks) \o ArgToks("sort", <<IdentTok("FULL_PATH_ASC")>>))
FirstArg(n) == Args(ArgToks("first", <<IntTok(n)>>))
LastArg(n) == Args(ArgToks("last", <<IntTok(n)>>))
IdName == <<Leaf("id", NoArgs), Leaf("name", NoArgs)>>
NodeIdOnly == <<Field("edges", NoArgs, <<Field("node", NoArgs, <<Leaf("id", NoArgs)>>)>>)>>
ParentOf(sels) == Field("parent", NoArgs, sels)
EdgesNode(sels) == Field("edges", NoArgs, <<Field("node", NoArgs, sels)>>)
PageInfoCursors ==
  Field("pageInfo", NoArgs, <<Leaf("endCursor", NoArgs), Leaf("startCursor", NoArgs)>>)
CreateGroupInput ==
  Args(ArgToks("input",
         <<Punct("{")>> \o ArgToks("name", <<StringTok("testGroup3")>>)
           \o ArgToks("description", <<StringTok("testing create group")>>)
           \o ArgToks("parentId", <<StringTok("0d253183")>>) \o <<Punct("}")>>))
Problems == Field("problems", NoArgs, <<Leaf("message", NoArgs)>>)
OverrideNodeParent == ("node" :> 2) @@ ("parent" :> 2)

\* each test: its input, the complexity it wants, the error message it wants
TestCase(input, wantComplexity, wantErrMessage) ==
  [input |-> input, wantComplexity |-> wantComplexity, wantErrMessage |-> wantErrMessage]

TestCases == <<
  \* Connection with 5 items
  TestCase(Input(QueryDoc(<<Field("groups", FirstAndSort(<<IntTok(5)>>), NodeIdOnly)>>),
                 EmptyMap, EmptyMap), 7, NoError),
  \* Connection with 5 items using a variable
  TestCase(Input(QueryDoc(<<Field("groups", FirstAndSort(<<Punct("$"), IdentTok("first")>>),
                                  NodeIdOnly)>>),
                 "first" :> Float64(5 * Scale), EmptyMap), 7, NoError),
  \* query with nested fragments
  TestCase(Input(QueryDoc(<<Field("me", NoArgs, <<InlineFragment(<<
             Field("memberships", FirstArg(100), <<EdgesNode(<<
               Leaf("id", NoArgs), Leaf("role", NoArgs),
               Field("namespace", NoArgs,
                     <<InlineFragment(<<Leaf("fullPath", NoArgs)>>),
                       InlineFragment(<<Leaf("fullPath", NoArgs)>>)>>)>>)>>)>>)>>)>>),
                 EmptyMap, EmptyMap), 203, NoError),
  \* Connection with missing variable
  TestCase(Input(QueryDoc(<<Field("groups", FirstAndSort(<<Punct("$"), IdentTok("first")>>),
                                  NodeIdOnly)>>),
                 EmptyMap, EmptyMap), 0, <<"Variable ", "first", " not defined">>),
  \* First connection is 0
  TestCase(Input(QueryDoc(<<Field("groups", FirstAndSort(<<IntTok(0)>>), <<
             Field("pageInfo", NoArgs,
                   <<Leaf("hasNextPage", NoArgs), Leaf("hasPreviousPage", NoArgs)>>),
             EdgesNode(IdName \o <<Leaf("fullPath", NoArgs), ParentOf(IdName)>>)>>)>>),
                 EmptyMap, OverrideNodeParent), 2, NoError),
  \* Single object calculation
  TestCase(Input(QueryDoc(<<Field("group",
                                  Args(ArgToks("fullPath", <<StringTok("colonies")>>)),
                                  <<Leaf("name", NoArgs)>>)>>),
                 EmptyMap, EmptyMap), 1, NoError),
  \* Multiple subconnections, one with 0 arg
  TestCase(Input(QueryDoc(<<Field("groups", FirstArg(2), <<EdgesNode(IdName \o <<
             ParentOf(<<Leaf("id", NoArgs)>>),
             Field("decendentGroups", LastArg(3), <<EdgesNode(IdName \o <<
               Field("decendentGroups", FirstArg(4), <<EdgesNode(IdName \o <<
                 ParentOf(IdName),
                 Field("decendentGroups", LastArg(0), <<EdgesNode(
                   IdName \o <<Leaf("description", NoArgs)>>)>>)>>)>>)>>)>>)>>)>>)>>),
                 EmptyMap, EmptyMap), 124, NoError),
  \* Mutation-Create calculation
  TestCase(Input(MutationDoc(<<Field("createGroup", CreateGroupInput, <<
             Field("group", NoArgs, IdName \o <<
               Field("decendentGroups", FirstArg(1),
                     <<EdgesNode(IdName \o <<ParentOf(IdName)>>)>>)>>),
             Problems>>)>>),
                 EmptyMap, EmptyMap), 14, NoError),
  \* Mutation-Create: calculation no parent
  TestCase(Input(MutationDoc(<<Field("createGroup", CreateGroupInput, <<
             Field("group", NoArgs, IdName \o <<
               Field("decendentGroups", FirstArg(3), <<EdgesNode(IdName)>>)>>),
             Problems>>)>>),
                 EmptyMap, EmptyMap), 15, NoError),
  \* Mutation-Update Group
  TestCase(Input(MutationDoc(<<Field("updateGroup", CreateGroupInput,
                                     <<Leaf("clientMutationId", NoArgs), Problems>>)>>),
                 EmptyMap, EmptyMap), 10, NoError),
  \* Fragment Calculation on connection
  TestCase(Input(ExecutableDefinition(
             <<Operation("query", <<Field("groups", FirstArg(5),
                                          <<FragmentSpread("connection")>>)>>)>>,
             <<FragmentDefinition("connection",
                 <<PageInfoCursors,
                   EdgesNode(IdName \o <<ParentOf(<<Leaf("name", NoArgs)>>)>>)>>)>>),
                 EmptyMap, EmptyMap), 12, NoError),
  \* Multiple Fragment Calculation
  TestCase(Input(ExecutableDefinition(
             <<Operation("query", <<Field("groups", FirstArg(5),
                 <<FragmentSpread("connection"), FragmentSpread("test")>>)>>)>>,
             <<FragmentDefinition("connection", <<PageInfoCursors>>),
               FragmentDefinition("test", <<EdgesNode(IdName \o <<ParentOf(IdName)>>)>>)>>),
                 EmptyMap, EmptyMap), 12, NoError),
  \* Fragment Calculation with sub connection
  TestCase(Input(ExecutableDefinition(
             <<Operation("query", <<Field("groups", FirstArg(5),
                 <<FragmentSpread("connection"), FragmentSpread("test")>>)>>)>>,
             <<FragmentDefinition("connection", <<EdgesNode(IdName \o <<
                 Field("decendentGroups", FirstArg(1), <<EdgesNode(IdName)>>)>>)>>),
               FragmentDefinition("test", <<PageInfoCursors>>)>>),
                 EmptyMap, EmptyMap), 22, NoError),
  \* Override
  TestCase(Input(QueryDoc(<<Field("groups", FirstArg(2),
             <<EdgesNode(IdName \o <<ParentOf(<<Leaf("id", NoArgs)>>)>>)>>)>>),
                 EmptyMap, OverrideNodeParent), 6, NoError),
  \* Override-connection
  TestCase(Input(QueryDoc(<<Field("groups", FirstArg(2),
             <<EdgesNode(IdName \o <<ParentOf(<<Leaf("id", NoArgs)>>)>>)>>)>>),
                 EmptyMap, "groups" :> 4), 4, NoError),
  \* Mutation-Frag Test
  TestCase(Input(ExecutableDefinition(
             <<Operation("mutation", <<Field("createGroup", CreateGroupInput,
                 <<FragmentSpread("groupFragment"), Problems>>)>>)>>,
             <<FragmentDefinition("groupFragment",
                 <<EdgesNode(IdName \o <<ParentOf(IdName)>>)>>)>>),
                 EmptyMap, EmptyMap), 12, NoError)
>>

TestInputs == {TestCases[t].input : t \in 1..Len(TestCases)}

\* ---- inputs: generated documents ----------------------------------------------
\* field names: an ordinary one, one the caller may override, the two the
\* evaluator knows by name
PlainName == "a"
OverriddenName == "b"
FieldNames == {PlainName, OverriddenName, "pageInfo", "edges"}
PlainLeaf == Leaf(PlainName, NoArgs)
\* a { a }: an object field over a leaf, of score 1
PlainObject == Field(PlainName, NoArgs, <<PlainLeaf>>)

VarTok(name) == <<Punct("$"), IdentTok(name)>>
SortArg == ArgToks("sort", <<IdentTok("FULL_PATH_ASC")>>)
\* the variables a caller supplies, one of each dynamic type; count is the
\* variable no caller supplies
RuntimeVariables ==
  ("num" :> JsonNumber(NatText(MaxCount)))
    @@ ("frac" :> JsonNumber(NatText(MaxCount) \o <<".", "5">>))
    @@ ("f64" :> Float64((MaxCount * Scale) + 5))
    @@ ("f32" :> Float32(0 - ((MaxCount * Scale) + 5)))
    @@ ("int" :> NativeInt(MaxCount))
    @@ ("str" :> StringValue(NatText(MaxCount)))
    @@ ("first" :> Float64(MaxCount * Scale))
VariableNames == DOMAIN RuntimeVariables \cup {"count"}
VariableMaps == {EmptyMap, RuntimeVariables}
OverrideMaps == {EmptyMap, OverriddenName :> MaxOverride}

\* argument lists of the tree documents
TreeArgs ==
  {NoArgs, FirstArg(MaxCount), Args(ArgToks("last", VarTok("count")))}

\* every argument list the argument documents use: literals of each kind,
\* variables of each dynamic type, two pagination arguments
ArgSources ==
  {<<>>, SortArg}
    \cup {ArgToks("first", <<IntTok(n)>>) : n \in 0..MaxCount}
    \cup {ArgToks("last", <<Punct("-"), IntTok(n)>>) : n \in 1..MaxCount}
    \cup {ArgToks("first", VarTok(v)) : v \in VariableNames}
    \cup {ArgToks("last", <<StringTok("2")>>),
          ArgToks("first", <<Tok("Float", <<"1", ".", "5">>)>>),
          ArgToks("first", <<IdentTok("null")>>),
          ArgToks("last", <<Punct("["), IntTok(1), Punct("]")>>),
          SortArg \o ArgToks("last", <<IntTok(1)>>),
          ArgToks("first", <<IntTok(1)>>) \o ArgToks("last", VarTok("count")),
          ArgToks("last", VarTok("count")) \o ArgToks("first", <<IntTok(1)>>),
          ArgToks("first", <<IntTok(MaxCount)>>) \o SortArg \o ArgToks("first", <<IntTok(0)>>)}
AllArgs == {Args(toks) : toks \in ArgSources}

\* the selection set of a focus field, when it has one
FocusChildren == {<<PlainObject>>}
FocusSelections ==
  {Leaf(name, args) : name \in FieldNames, args \in TreeArgs}
    \cup {Field(name, args, sels) :
            name \in FieldNames, args \in TreeArgs, sels \in FocusChildren}
    \cup {FragmentSpread("F"), FragmentSpread("H"), FragmentSpread("G"),
          InlineFragment(<<PlainObject>>)}

\* what may enclose a selection sequence
WrapperKinds == {"object", "connection", "pageInfo", "override", "inline", "sibling"}
Wrap(kind, sels) ==
  CASE kind = "object" -> <<Field(PlainName, NoArgs, sels)>>
    [] kind = "connection" -> <<Field(PlainName, FirstArg(MaxCount), sels)>>
    [] kind = "pageInfo" -> <<Field("pageInfo", NoArgs, sels)>>
    [] kind = "override" -> <<Field(OverriddenName, NoArgs, sels)>>
    [] kind = "inline" -> <<InlineFragment(sels)>>
    [] kind = "sibling" -> <<PlainObject>> \o sels \o <<PlainLeaf>>

\* the sequences S wrapped at most d times
RECURSIVE Wrapped(_, _)
Wrapped(S, d) ==
  IF d = 0 THEN S
  ELSE S \cup {Wrap(kind, sels) : kind \in WrapperKinds, sels \in Wrapped(S, d - 1)}

TreeSelections == Wrapped({<<f>> : f \in FocusSelections}, MaxDepth)

\* the fragments of a tree document: F is an object, H a connection whose
\* count is the variable count; G is defined nowhere
TreeFragments ==
  <<FragmentDefinition("F", <<PlainObject>>),
    FragmentDefinition("H", <<Field(PlainName, Args(ArgToks("last", VarTok("count"))),
                                    <<PlainObject>>)>>)>>

TreeInputs ==
  {Input(ExecutableDefinition(<<Operation(type, sels)>>, TreeFragments), vars, overrides) :
     type \in {"query", "mutation"}, sels \in TreeSelections,
     vars \in VariableMaps, overrides \in OverrideMaps}

\* argument documents: a field with each argument list, at the top of a
\* query and at the first scored level of a mutation
ArgChildren == {<<>>, <<PlainObject>>, <<PlainObject, PlainObject>>}
ArgFields ==
  {Leaf(PlainName, args) : args \in AllArgs}
    \cup {Field(PlainName, args, sels) : args \in AllArgs, sels \in ArgChildren}
ArgInputs ==
  {Input(QueryDoc(<<f>>), vars, EmptyMap) : f \in ArgFields, vars \in VariableMaps}
    \cup {Input(MutationDoc(Wrap("object", Wrap("object", <<f>>))), vars, EmptyMap) :
            f \in ArgFields, vars \in VariableMaps}

\* documents of several operations
SmallOperations ==
  {Operation("query", <<PlainLeaf>>),
   Operation("query", <<Leaf("pageInfo", NoArgs), Leaf(PlainName, Args(SortArg))>>),
   Operation("query", <<Leaf(PlainName, FirstArg(1))>>),
   Operation("query", <<PlainObject>>),
   Operation("query", <<Field(PlainName, Args(ArgToks("first", VarTok("num"))),
                               <<PlainObject>>)>>),
   Operation("mutation", <<PlainLeaf>>),
   Operation("mutation", <<Leaf(PlainName, FirstArg(1)), Leaf(OverriddenName, NoArgs)>>),
   Operation("mutation", Wrap("object", Wrap("object", <<PlainObject>>))),
   Operation("subscription", <<PlainObject>>),
   Operation("subscription", <<Field(PlainName, Args(ArgToks("first", VarTok("count"))),
                                      <<PlainObject>>)>>)}
RECURSIVE OperationLists(_)
OperationLists(n) ==
  IF n = 0 THEN {<<>>}
  ELSE OperationLists(n - 1)
         \cup {Append(ops, op) : ops \in OperationLists(n - 1), op \in SmallOperations}
MultiInputs ==
  {Input(ExecutableDefinition(ops, <<>>), vars, EmptyMap) :
     ops \in OperationLists(MaxOps), vars \in VariableMaps}

\* rule documents: a query of one field with a name the evaluator knows, with
\* and without an override of that name
RuleInputs ==
  {Input(QueryDoc(<<f>>), vars, overrides) :
     f \in {Leaf(name, args) : name \in {"pageInfo", "edges"}, args \in TreeArgs}
            \cup {Field(name, args, <<PlainObject>>) :
                    name \in {"pageInfo", "edges"}, args \in TreeArgs},
     vars \in VariableMaps,
     overrides \in {("pageInfo" :> MaxOverride) @@ ("edges" :> 1)}}

\* fragment documents: up to MaxFragments definitions, names repeated, and
\* operations that spread them
FragmentBodies ==
  {<<PlainObject>>,
   <<Field(PlainName, FirstArg(MaxCount), <<PlainObject>>)>>,
   <<Field(PlainName, Args(ArgToks("last", VarTok("count"))), <<PlainObject>>)>>}
FragmentDefinitions ==
  {FragmentDefinition("F", sels) : sels \in FragmentBodies}
    \cup {FragmentDefinition("K", <<PlainObject>>)}
RECURSIVE FragmentLists(_)
FragmentLists(n) ==
  IF n = 0 THEN {<<>>}
  ELSE FragmentLists(n - 1)
         \cup {Append(fs, f) : fs \in FragmentLists(n - 1), f \in FragmentDefinitions}
SpreadingOperations ==
  {<<Operation("query", <<FragmentSpread("F")>>)>>,
   <<Operation("query", <<Field(PlainName, NoArgs, <<FragmentSpread("F")>>)>>)>>,
   <<Operation("mutation", <<Field(PlainName, NoArgs, <<FragmentSpread("F")>>)>>)>>,
   <<Operation("query", <<FragmentSpread("K"), FragmentSpread("F")>>),
     Operation("query", <<FragmentSpread("F")>>)>>}
FragmentInputs ==
  {Input(ExecutableDefinition(ops, fs), vars, EmptyMap) :
     ops \in SpreadingOperations, fs \in FragmentLists(MaxFragments), vars \in VariableMaps}

\* cyclic documents: fragments that spread themselves, at once or through
\* another one, behind or before a field that may fail, below a connection,
\* below pageInfo, below a field the caller may override
SelfSpread == FragmentSpread("F")
NumConnection(sels) == Field(PlainName, Args(ArgToks("first", VarTok("num"))), sels)
CyclicFragments ==
  {<<FragmentDefinition("F", <<PlainObject, SelfSpread>>)>>,
   <<FragmentDefinition("F", <<NumConnection(<<PlainObject>>), SelfSpread>>)>>,
   <<FragmentDefinition("F", <<SelfSpread, NumConnection(<<PlainObject>>)>>)>>,
   <<FragmentDefinition("F", <<NumConnection(<<SelfSpread>>)>>)>>,
   <<FragmentDefinition("F", <<FragmentSpread("K")>>),
     FragmentDefinition("K", <<Field(PlainName, NoArgs, <<SelfSpread>>)>>)>>,
   <<FragmentDefinition("F", <<Field("pageInfo", NoArgs, <<SelfSpread>>)>>)>>,
   <<FragmentDefinition("F", <<Field(OverriddenName, NoArgs, <<SelfSpread>>)>>)>>,
   <<FragmentDefinition("F", <<Field("edges", NoArgs, <<InlineFragment(<<SelfSpread>>)>>)>>)>>}
CyclicOperations ==
  {Operation("query", <<SelfSpread>>),
   Operation("query", <<PlainObject, Field(PlainName, NoArgs, <<SelfSpread>>)>>),
   Operation("query", <<PlainObject>>),
   Operation("mutation", <<SelfSpread>>),
   Operation("mutation", <<Field(PlainName, NoArgs, <<SelfSpread>>)>>),
   Operation("mutation", <<Field(PlainName, NoArgs, <<Field("pageInfo", NoArgs, <<SelfSpread>>)>>)>>),
   Operation("mutation", <<Field(PlainName, NoArgs, <<InlineFragment(<<SelfSpread>>)>>)>>)}
CyclicInputs ==
  {Input(ExecutableDefinition(<<op>>, fs), vars, overrides) :
     op \in CyclicOperations, fs \in CyclicFragments,
     vars \in VariableMaps, overrides \in OverrideMaps}

Inputs ==
  TreeInputs \cup ArgInputs \cup MultiInputs \cup TestInputs \cup RuleInputs
    \cup FragmentInputs \cup CyclicInputs

\* argument lists the parser rejects: no value, no colon, a variable without
\* a name, no argument name
BrokenArgSources ==
  {ArgToks("first", <<>>),
   <<IdentTok("first"), IntTok(1)>>,
   ArgToks("first", <<Punct("$"), IntTok(1)>>),
   <<Punct(":"), IntTok(1)>>,
   ArgToks("first", <<Punct("["), IntTok(1)>>)}
\* the errors query.Parse returns for a document with such a list
ParseErrors ==
  {ParseArgumentList(<<Punct("(")>> \o toks \o <<Punct(")")>>).err : toks \in BrokenArgSources}
\* the document query.Parse returns with an error
NilDocument == ExecutableDefinition(<<>>, <<>>)

\* ---- GetQueryComplexity as a state machine ---------------------------------------
VARIABLES
  doc,             \* executableDefinition, the parsed document
  parseErr,        \* err, what query.Parse returned with it
  variables,       \* the variables argument
  fieldOverrides,  \* the fieldOverrides argument
  fragUsed,        \* the fragment registry
  opIndex,         \* the operation the loop is at
  complexity,      \* the running total
  result,          \* what the call returned: (int, error)
  pc,              \* "parsed", "scoring", "returned" (from the loop over the
                   \* operations), "rejected" (with the parse error)
  source,          \* what a lexer is made for: the text and the mode
  lexer,           \* the Lexer
  description,     \* what DescComment returned
  tokens,          \* what a value parser is at
  literal          \* what ParseLiteral returned

evalVars == <<doc, parseErr, variables, fieldOverrides, fragUsed, opIndex, complexity, result>>
lexVars == <<source, lexer, description>>
litVars == <<tokens, literal>>
vars == <<evalVars, pc, lexVars, litVars>>

\* the parts of the state a run does not use
NoEvaluation ==
  /\ doc = NilDocument
  /\ parseErr = NoError
  /\ variables = EmptyMap
  /\ fieldOverrides = EmptyMap
  /\ fragUsed = EmptyRegistry
  /\ opIndex = 1
  /\ complexity = 0
  /\ result = Ret(0, NoError)
NoLexing == source = <<>> /\ lexer = <<>> /\ description = <<>>
NoLiteral == tokens = <<>> /\ literal = <<>>

state == QueryState(variables, fieldOverrides, fragUsed)

Init ==
  /\ \/ \E in \in Inputs :
          /\ doc = in.doc
          /\ parseErr = NoError
          /\ variables = in.variables
          /\ fieldOverrides = in.fieldOverrides
     \/ \E e \in ParseErrors, vs \in VariableMaps, overrides \in OverrideMaps :
          /\ doc = NilDocument
          /\ parseErr = e
          /\ variables = vs
          /\ fieldOverrides = overrides
  /\ fragUsed = EmptyRegistry
  /\ opIndex = 1
  /\ complexity = 0
  /\ result = Ret(0, NoError)
  /\ pc = "parsed"
  /\ NoLexing
  /\ NoLiteral

\* lines 35-37: the parse error is returned as it is
ParseFailed ==
  /\ pc = "parsed"
  /\ parseErr # NoError
  /\ result' = Ret(0, parseErr)
  /\ pc' = "rejected"
  /\ UNCHANGED <<doc, parseErr, variables, fieldOverrides, fragUsed, opIndex, complexity>>
  /\ UNCHANGED <<lexVars, litVars>>

\* lines 38-47: the fragment registry and the query state
BuildState ==
  /\ pc = "parsed"
  /\ parseErr = NoError
  /\ fragUsed' = BuildFragUsed(doc.fragments, EmptyRegistry)
  /\ pc' = "scoring"
  /\ UNCHANGED <<doc, parseErr, variables, fieldOverrides, opIndex, complexity, result>>
  /\ UNCHANGED <<lexVars, litVars>>

\* the running total is returned with the error
Accumulate_m(c) ==
  IF c.err # NoError
    THEN /\ result' = Ret(complexity, c.err)
         /\ pc' = "returned"
         /\ UNCHANGED <<opIndex, complexity>>
    ELSE /\ complexity' = complexity + c.val
         /\ opIndex' = opIndex + 1
         /\ UNCHANGED <<result, pc>>
\* one turn of the loop over the operations: add c, or return (0, err)
Accumulate(c) ==
  IF c.err # NoError
    THEN /\ result' = Ret(0, c.err)
         /\ pc' = "returned"
         /\ UNCHANGED <<opIndex, complexity>>
    ELSE /\ complexity' = complexity + c.val
         /\ opIndex' = opIndex + 1
         /\ UNCHANGED <<result, pc>>

ScoreQuery ==
  /\ pc = "scoring"
  /\ opIndex <= Len(doc.operations)
  /\ doc.operations[opIndex].type = "query"
  /\ Accumulate(OperationComplexity(doc.operations[opIndex], state))
  /\ UNCHANGED <<doc, parseErr, variables, fieldOverrides, fragUsed>>
  /\ UNCHANGED <<lexVars, litVars>>

ScoreMutation ==
  /\ pc = "scoring"
  /\ opIndex <= Len(doc.operations)
  /\ doc.operations[opIndex].type = "mutation"
  /\ Accumulate(OperationComplexity(doc.operations[opIndex], state))
  /\ UNCHANGED <<doc, parseErr, variables, fieldOverrides, fragUsed>>
  /\ UNCHANGED <<lexVars, litVars>>

\* a subscription is scored as a query is
SkipSubscription_m ==
  /\ pc = "scoring"
  /\ opIndex <= Len(doc.operations)
  /\ doc.operations[opIndex].type = "subscription"
  /\ Accumulate(calculateSelectionComplexity(doc.operations[opIndex].sels, state, 1))
  /\ UNCHANGED <<doc, parseErr, variables, fieldOverrides, fragUsed>>
  /\ UNCHANGED <<lexVars, litVars>>
\* lines 64-66: a subscription adds nothing
SkipSubscription ==
  /\ pc = "scoring"
  /\ opIndex <= Len(doc.operations)
  /\ doc.operations[opIndex].type = "subscription"
  /\ opIndex' = opIndex + 1
  /\ UNCHANGED <<doc, parseErr, variables, fieldOverrides, fragUsed, complexity, result, pc>>
  /\ UNCHANGED <<lexVars, litVars>>

\* line 69
ReturnComplexity ==
  /\ pc = "scoring"
  /\ opIndex > Len(doc.operations)
  /\ result' = Ret(complexity, NoError)
  /\ pc' = "returned"
  /\ UNCHANGED <<doc, parseErr, variables, fieldOverrides, fragUsed, opIndex, complexity>>
  /\ UNCHANGED <<lexVars, litVars>>

Next == ParseFailed \/ BuildState \/ ScoreQuery \/ ScoreMutation \/ SkipSubscription \/ ReturnComplexity

Spec == Init /\ [][Next]_vars

\* ---- the lexer at work: TestConsume of lexer_test.go --------------------------------
\* what follows the '#' of a comment line, up to the end of the line
CommentBodies ==
  {<<>>, <<" ">>, <<"a">>, <<" ", "a">>, <<" ", " ", "a">>, <<" ", "a", " ", "b">>}
RECURSIVE CommentLists(_)
CommentLists(n) ==
  IF n = 0 THEN {<<>>}
  ELSE CommentLists(n - 1)
         \cup {Append(lines, body) : lines \in CommentLists(n - 1), body \in CommentBodies}

\* the literal that follows the comments: none, a quoted string of a value, a
\* block string of a raw text, a quoted string with a second one right behind
\* it, a quoted string the line ends in
SourceLiteral(kind, value) == [kind |-> kind, value |-> value]
SourceLiterals ==
  {SourceLiteral("none", <<>>),
   SourceLiteral("string", <<>>),
   SourceLiteral("string", <<"a", "t", " ", "b">>),
   SourceLiteral("string", <<"a", "\"", "b">>),
   SourceLiteral("block", <<"a">>),
   SourceLiteral("block", <<"\n", "a", "t", " ", "b", "\n", "a", "b", "\n">>),
   SourceLiteral("block", <<"\n", " ", " ", "a", "\n", " ", " ", " ", "b", "\n", " ", "\n">>),
   SourceLiteral("adjacent", <<"a", "b">>),
   SourceLiteral("unterminated", <<"a">>)}

\* the source text of a quoted string of that value
RECURSIVE Escape(_)
Escape(value) ==
  IF value = <<>> THEN <<>>
  ELSE (IF Head(value) \in {"\"", "\\"} THEN <<"\\", Head(value)>>
        ELSE IF Head(value) = "\n" THEN <<"\\", "n">>
        ELSE <<Head(value)>>) \o Escape(Tail(value))
Quoted(value) == <<"\"">> \o Escape(value) \o <<"\"">>
TripleQuote == <<"\"", "\"", "\"">>
LiteralText(lit) ==
  CASE lit.kind = "none" -> <<>>
    [] lit.kind = "string" -> Quoted(lit.value) \o <<"\n">>
    [] lit.kind = "block" -> TripleQuote \o lit.value \o TripleQuote \o <<"\n">>
    [] lit.kind = "adjacent" -> Quoted(lit.value) \o Quoted(<<"b">>) \o <<"\n">>
    [] lit.kind = "unterminated" -> <<"\"">> \o lit.value \o <<"\n">>
\* the comment lines, each after commas when commas is set
RECURSIVE CommentText(_, _)
CommentText(lines, commas) ==
  IF lines = <<>> THEN <<>>
  ELSE (IF commas THEN <<",", ",", " ">> ELSE <<>>)
         \o <<"#">> \o Head(lines) \o <<"\n">> \o CommentText(Tail(lines), commas)
\* a definition as those of consumeTests: comments, a literal, a type
SourceText(lines, commas, lit) ==
  <<"\n">> \o CommentText(lines, commas) \o LiteralText(lit) \o <<"t", "y", "p", "e", " ">>
LexSource(lines, commas, lit, useStringDescriptions) ==
  [lines |-> lines, commas |-> commas, literal |-> lit,
   definition |-> SourceText(lines, commas, lit),
   useStringDescriptions |-> useStringDescriptions]
LexSources ==
  {LexSource(lines, commas, lit, mode) :
     lines \in CommentLists(MaxComments), commas \in BOOLEAN,
     lit \in SourceLiterals, mode \in BOOLEAN}

\* lex := common.NewLexer(test.definition, test.useStringDescriptions)
LexInit ==
  /\ \E src \in LexSources :
       /\ source = src
       /\ lexer = NewLexer(src.definition, src.useStringDescriptions)
  /\ description = <<>>
  /\ pc = "fresh"
  /\ NoEvaluation
  /\ NoLiteral

\* lex.CatchSyntaxError(func() { lex.ConsumeWhitespace() })
TestConsumeWhitespace ==
  /\ pc = "fresh"
  /\ lexer' = ConsumeWhitespace(lexer)
  /\ pc' = IF lexer'.err # NoError THEN "failed" ELSE "scanned"
  /\ UNCHANGED <<evalVars, source, description, litVars>>

\* lex.DescComment()
TestDescComment ==
  /\ pc = "scanned"
  /\ description' = DescComment(lexer).desc
  /\ lexer' = DescComment(lexer).l
  /\ pc' = "described"
  /\ UNCHANGED <<evalVars, source, litVars>>

LexNext == TestConsumeWhitespace \/ TestDescComment

LexSpec == LexInit /\ [][LexNext]_vars

\* ---- a run of the value parser --------------------------------------------------
\* the tokens a value can start with, and those that cannot start one
FirstTokens ==
  {IntTok(n) : n \in 0..MaxCount}
    \cup {Tok("Float", <<"1", ".", "5">>), StringTok("2"), IdentTok("abc"),
          IdentTok("null"), Punct(")"), Punct("]"), Punct(":"), Punct("-")}
\* what the lexer is at: nothing, a token, a sign and nothing, a sign and a token
ValueStarts ==
  {<<>>, <<Punct("-")>>}
    \cup {<<t>> : t \in FirstTokens}
    \cup {<<Punct("-"), t>> : t \in FirstTokens}
\* what follows the value in its argument list
ValueRests == {<<>>, <<Punct(")")>>, <<IdentTok("sort"), Punct(":"), IdentTok("asc"), Punct(")")>>}
\* a value alone, or as the item of a list
ValueSources ==
  {[toks |-> start \o rest, constOnly |-> c] :
     start \in ValueStarts, rest \in ValueRests, c \in BOOLEAN}
    \cup {[toks |-> <<Punct("[")>> \o start \o <<Punct("]")>> \o rest, constOnly |-> c] :
            start \in ValueStarts, rest \in ValueRests, c \in BOOLEAN}

\* the lexer stands at the first token of a value
LiteralInit ==
  /\ tokens \in ValueSources
  /\ literal = <<>>
  /\ pc = "value"
  /\ NoEvaluation
  /\ NoLexing

\* value := ParseLiteral(l, constOnly)
TestParseLiteral ==
  /\ pc = "value"
  /\ literal' = ParseLiteral(tokens.toks, tokens.constOnly)
  /\ pc' = "literal"
  /\ UNCHANGED <<evalVars, lexVars, tokens>>

LiteralNext == TestParseLiteral

LiteralSpec == LiteralInit /\ [][LiteralNext]_vars

\* ---- what the evaluation looks at -------------------------------------------------
Operations == {doc.operations[i] : i \in 1..Len(doc.operations)}
QueryOperations == {op \in Operations : op.type = "query"}
MutationOperations == {op \in Operations : op.type = "mutation"}

\* the selections calculateSelectionComplexity(sels) applies its rules to when
\* no error cuts it short: it does not descend into an overridden field or
\* into pageInfo, and it follows the spreads the registry resolves
RECURSIVE Scored(_, _)
Scored(sels, fuel) ==
  IF fuel = 0 THEN {}
  ELSE UNION {
    {sels[i]} \cup
      (CASE sels[i].kind = "Field" ->
              IF isOverride(sels[i].name, fieldOverrides) \/ sels[i].name = "pageInfo"
                THEN {}
                ELSE Scored(sels[i].sels, fuel - 1)
         [] sels[i].kind = "FragmentSpread" ->
              IF sels[i].name \in DOMAIN fragUsed
                THEN Scored(fragUsed[sels[i].name], fuel - 1)
                ELSE {}
         [] OTHER -> Scored(sels[i].sels, fuel - 1)) : i \in 1..Len(sels)}

\* the selection sequences calculateMutationComplexity hands to
\* calculateSelectionComplexity
MutationScoredSequences(op) ==
  LET TopFields == {op.sels[i] : i \in {k \in 1..Len(op.sels) : op.sels[k].kind = "Field"}}
      Children(f) == {f.sels[j] : j \in 1..Len(f.sels)}
  IN  UNION {
        {x.sels : x \in {y \in Children(f) : y.kind = "Field"}}
          \cup {fragUsed[x.name] :
                  x \in {y \in Children(f) :
                           y.kind = "FragmentSpread" /\ y.name \in DOMAIN fragUsed}}
        : f \in TopFields}

ScoredInOperation(op) ==
  CASE op.type = "query" -> Scored(op.sels, MaxStack)
    [] op.type = "mutation" ->
         UNION {Scored(sels, MaxStack) : sels \in MutationScoredSequences(op)}
    [] OTHER -> {}

HasPaginationArg(g) == \E i \in 1..Len(g.args) : g.args[i].name \in {"first", "last"}
Overridden(g) == g.name \in DOMAIN fieldOverrides
\* the document is one query of one selection
SingleQuerySelection ==
  /\ Len(doc.operations) = 1
  /\ doc.operations[1].type = "query"
  /\ Len(doc.operations[1].sels) = 1
TheSelection == doc.operations[1].sels[1]
Score(sels) == calculateSelectionComplexity(sels, state, 1)
Contribution(g) == SelectionComplexity(g, state, 1)

\* ---- C1 ------------------------------------------------------------------------------
\* a Field the connection rule is about: no override, not pageInfo, not
\* edges, an argument named first or last
IsConnectionField(g) ==
  /\ g.kind = "Field"
  /\ ~Overridden(g)
  /\ g.name \notin {"pageInfo", "edges"}
  /\ HasPaginationArg(g)

ConnectionRuleHolds(g) ==
  LET c == Score(g.sels)
      n == getConnectionNodeCount(g.args, variables)
  IN  (c.err = NoError /\ n.err = NoError) =>
        /\ Contribution(g) = Ret((n.val * c.val) + 2, NoError)
        /\ n.val = 0 => Contribution(g).val = 2
        /\ \A k \in 0..MaxCount :
             g.args = FirstArg(k) => Contribution(g).val = (k * c.val) + 2

\* C1: in a query operation every scored Field with no override, not named
\* pageInfo or edges and with an argument first or last adds n*c + 2, n the
\* resolved item count and c the score of its selection set (2 when n = 0); a
\* query that is one such field returns n*c + 2.
C1_ConnectionAddsCountTimesChildrenPlusTwo ==
  /\ pc # "parsed" =>
       \A op \in QueryOperations : \A g \in ScoredInOperation(op) :
         IsConnectionField(g) => ConnectionRuleHolds(g)
  /\ (pc = "returned" /\ SingleQuerySelection /\ IsConnectionField(TheSelection)) =>
       LET c == Score(TheSelection.sels)
           n == getConnectionNodeCount(TheSelection.args, variables)
       IN  (c.err = NoError /\ n.err = NoError) =>
             result = Ret((n.val * c.val) + 2, NoError)

\* a query of one connection with a count of at least 2 over children that
\* cost something has returned
C1_Witness ==
  /\ pc = "returned"
  /\ SingleQuerySelection
  /\ IsConnectionField(TheSelection)
  /\ result.err = NoError
  /\ Score(TheSelection.sels).val >= 1
  /\ getConnectionNodeCount(TheSelection.args, variables).val >= 2
  /\ result.val = (getConnectionNodeCount(TheSelection.args, variables).val
                     * Score(TheSelection.sels).val) + 2

\* ---- C2 ------------------------------------------------------------------------------
\* a Field the generic rule is about
IsGenericField(g) ==
  /\ g.kind = "Field"
  /\ ~Overridden(g)
  /\ g.name \notin {"pageInfo", "edges"}
  /\ ~HasPaginationArg(g)

GenericRuleHolds(g) ==
  IF g.hasSel
    THEN Score(g.sels).err = NoError =>
           Contribution(g) = Ret(Score(g.sels).val + 1, NoError)
    ELSE Contribution(g) = Ret(0, NoError)

\* C2: a scored Field with no override, not named pageInfo or edges and with
\* no first/last argument adds the score of its selection set plus 1 when it
\* has a selection set, and 0 when it has none; a query that is one such
\* field returns just that.
C2_ObjectAddsChildrenPlusOneLeafAddsZero ==
  /\ pc # "parsed" =>
       \A op \in Operations : \A g \in ScoredInOperation(op) :
         IsGenericField(g) => GenericRuleHolds(g)
  /\ (pc = "returned" /\ SingleQuerySelection /\ IsGenericField(TheSelection)) =>
       IF TheSelection.hasSel
         THEN Score(TheSelection.sels).err = NoError =>
                result = Ret(Score(TheSelection.sels).val + 1, NoError)
         ELSE result = Ret(0, NoError)

\* a query of one object field over children that cost something has returned
C2_Witness ==
  /\ pc = "returned"
  /\ SingleQuerySelection
  /\ IsGenericField(TheSelection)
  /\ TheSelection.hasSel
  /\ Score(TheSelection.sels).val >= 1
  /\ result = Ret(Score(TheSelection.sels).val + 1, NoError)

\* ---- C3 ------------------------------------------------------------------------------
LeafOnly(op) ==
  \A i \in 1..Len(op.sels) : op.sels[i].kind = "Field" /\ ~op.sels[i].hasSel
LeafOnlyDocument == \A op \in Operations : LeafOnly(op)
RECURSIVE BaseTotal(_)
BaseTotal(ops) ==
  IF ops = <<>> THEN 0
  ELSE (IF Head(ops).type = "mutation" THEN 10 ELSE 0) + BaseTotal(Tail(ops))
NoPaginationLeafInQueries ==
  \A op \in QueryOperations : \A i \in 1..Len(op.sels) : ~HasPaginationArg(op.sels[i])

\* C3 as claimed: with no overrides, a document of leaf fields only returns 0
\* for each query and 10 for each mutation, whatever the leaves' arguments.
C3_LeafDocumentReturnsBase ==
  (pc = "returned" /\ DOMAIN fieldOverrides = {} /\ LeafOnlyDocument) =>
    result = Ret(BaseTotal(doc.operations), NoError)

\* C3 as amended: the same, provided no leaf of a query operation has an
\* argument named first or last.
C3_LeafDocumentWithoutPaginationReturnsBase ==
  (pc = "returned" /\ DOMAIN fieldOverrides = {} /\ LeafOnlyDocument
     /\ NoPaginationLeafInQueries) =>
    result = Ret(BaseTotal(doc.operations), NoError)

\* a document of a query and a mutation, leaves only, some with arguments
\* and the mutation's with a pagination argument, has returned its base
C3_Witness ==
  /\ pc = "returned"
  /\ DOMAIN fieldOverrides = {}
  /\ LeafOnlyDocument
  /\ NoPaginationLeafInQueries
  /\ \E op \in QueryOperations : \E i \in 1..Len(op.sels) : op.sels[i].args # <<>>
  /\ \E op \in MutationOperations : \E i \in 1..Len(op.sels) : HasPaginationArg(op.sels[i])
  /\ result = Ret(10, NoError)

\* ---- C4 ------------------------------------------------------------------------------
RECURSIVE PruneOverridden(_, _)
\* sels with the selection set of every overridden field taken away
PruneOverridden(sels, overrides) ==
  [i \in 1..Len(sels) |->
     IF sels[i].kind = "Field" /\ sels[i].name \in DOMAIN overrides
       THEN Leaf(sels[i].name, sels[i].args)
       ELSE [sels[i] EXCEPT !.sels = PruneOverridden(sels[i].sels, overrides)]]
PrunedDocument ==
  ExecutableDefinition(
    [i \in 1..Len(doc.operations) |->
       Operation(doc.operations[i].type,
                 PruneOverridden(doc.operations[i].sels, fieldOverrides))],
    [i \in 1..Len(doc.fragments) |->
       FragmentDefinition(doc.fragments[i].name,
                          PruneOverridden(doc.fragments[i].sels, fieldOverrides))])
SingleSelection == Len(doc.operations) = 1 /\ Len(doc.operations[1].sels) = 1

\* C4 as claimed: an overridden field adds its override and its subtree adds
\* nothing, in queries and mutations alike: the result does not change when
\* the selection sets of the overridden fields are taken away, and an
\* operation that is one overridden field returns its base plus the override.
C4_OverrideReplacesEveryOccurrence ==
  pc = "returned" =>
    /\ result = GetQueryComplexity(PrunedDocument, variables, fieldOverrides)
    /\ (SingleSelection /\ doc.operations[1].type \in {"query", "mutation"}
          /\ TheSelection.kind = "Field" /\ Overridden(TheSelection)) =>
         result = Ret(BaseTotal(doc.operations) + fieldOverrides[TheSelection.name],
                      NoError)

\* ---- C5 ------------------------------------------------------------------------------
RECURSIVE StripPageInfo(_)
\* sels with the children of every pageInfo field taken away
StripPageInfo(sels) ==
  [i \in 1..Len(sels) |->
     IF sels[i].kind = "Field" /\ sels[i].name = "pageInfo"
       THEN Leaf(sels[i].name, sels[i].args)
       ELSE [sels[i] EXCEPT !.sels = StripPageInfo(sels[i].sels)]]
StrippedDocument ==
  ExecutableDefinition(
    [i \in 1..Len(doc.operations) |->
       Operation(doc.operations[i].type, StripPageInfo(doc.operations[i].sels))],
    [i \in 1..Len(doc.fragments) |->
       FragmentDefinition(doc.fragments[i].name, StripPageInfo(doc.fragments[i].sels))])

\* C5 as claimed: the children of a pageInfo field never count: the result
\* does not change when they are taken away, at any depth, in a query or a
\* mutation.
C5_PageInfoChildrenNeverCount ==
  pc = "returned" =>
    result = GetQueryComplexity(StrippedDocument, variables, fieldOverrides)

\* ---- C6 ------------------------------------------------------------------------------
\* C6 as claimed: a complexity returned without error is not negative.
C6_ReturnedComplexityNotNegative ==
  (pc = "returned" /\ result.err = NoError) => result.val >= 0

\* ---- C7 ------------------------------------------------------------------------------
\* the argument getConnectionNodeCount decides on: the first one named first
\* or last
FirstPaginationArg(g) ==
  g.args[CHOOSE k \in 1..Len(g.args) :
           /\ g.args[k].name \in {"first", "last"}
           /\ \A j \in 1..(k - 1) : g.args[j].name \notin {"first", "last"}]
CountIsAbsentVariable(g) ==
  /\ FirstPaginationArg(g).value.kind = "Variable"
  /\ FirstPaginationArg(g).value.name \notin DOMAIN variables

\* C7 as claimed: when the pagination argument is a variable the mapping
\* lacks, the evaluation fails with "Variable <name> not defined", <name> the
\* name of that variable.
C7_ErrorNamesTheVariable ==
  (pc = "returned" /\ SingleQuerySelection /\ IsConnectionField(TheSelection)
     /\ Score(TheSelection.sels).err = NoError /\ CountIsAbsentVariable(TheSelection)) =>
    result = Ret(0, <<"Variable ", FirstPaginationArg(TheSelection).value.name,
                      " not defined">>)

\* ---- C8 ------------------------------------------------------------------------------
\* the selections reachable from sels through fields without override,
\* resolved fragment spreads and inline fragments
RECURSIVE ReachableWithoutOverride(_, _)
ReachableWithoutOverride(sels, fuel) ==
  IF fuel = 0 THEN {}
  ELSE UNION {
    {sels[i]} \cup
      (CASE sels[i].kind = "Field" ->
              IF Overridden(sels[i]) THEN {}
              ELSE ReachableWithoutOverride(sels[i].sels, fuel - 1)
         [] sels[i].kind = "FragmentSpread" ->
              IF sels[i].name \in DOMAIN fragUsed
                THEN ReachableWithoutOverride(fragUsed[sels[i].name], fuel - 1)
                ELSE {}
         [] OTHER -> ReachableWithoutOverride(sels[i].sels, fuel - 1)) : i \in 1..Len(sels)}
HasAbsentVariableCount(g) ==
  \E i \in 1..Len(g.args) :
    /\ g.args[i].name \in {"first", "last"}
    /\ g.args[i].value.kind = "Variable"
    /\ g.args[i].value.name \notin DOMAIN variables
IsUndefinedVariableError(err) == Len(err) = 3 /\ err[1] = "Variable " /\ err[3] = " not defined"

\* C8 as claimed: when a field reachable from a query or a mutation, with no
\* override on it or above it, has a first or last argument that is a variable
\* the mapping lacks, an error is returned instead of a score.
C8_AbsentVariableAlwaysFails ==
  (pc = "returned"
     /\ \E op \in QueryOperations \cup MutationOperations :
          \E g \in ReachableWithoutOverride(op.sels, MaxStack) :
            g.kind = "Field" /\ ~Overridden(g) /\ HasAbsentVariableCount(g)) =>
    result.err # NoError

\* C8 as amended: when a field that calculateSelectionComplexity scores as a
\* connection (no override, not pageInfo, not edges; not below pageInfo or an
\* overridden field; in a mutation below an immediate child of a top-level
\* field) has as its first argument named first or last a variable the
\* mapping lacks, the undefined-variable error is returned with the value 0
\* (nothing is returned when a fragment cycle ends the process first).
C8_ScoredConnectionWithAbsentVariableFails ==
  (pc = "returned"
     /\ \E op \in Operations : \E g \in ScoredInOperation(op) :
          IsConnectionField(g) /\ CountIsAbsentVariable(g)) =>
    \/ result.val = 0 /\ IsUndefinedVariableError(result.err)
    \/ result.err = StackOverflow

\* a mutation has failed on a connection below the children of its payload
\* field, the count of which is a variable the mapping lacks
C8_Witness ==
  /\ pc = "returned"
  /\ \E op \in MutationOperations : \E g \in ScoredInOperation(op) :
       /\ IsConnectionField(g)
       /\ CountIsAbsentVariable(g)
       /\ result = Ret(0, UndefinedVariable(FirstPaginationArg(g)))

\* ---- C9 ------------------------------------------------------------------------------
\* what the immediate child x of a top-level field adds to a mutation
MutationTerm(x) ==
  CASE x.kind = "Field" -> Score(x.sels)
    [] x.kind = "FragmentSpread" /\ x.name \in DOMAIN fragUsed -> Score(fragUsed[x.name])
    [] OTHER -> Ret(0, NoError)
\* the places <<i, j>> of the immediate children of the top-level fields
ChildPlaces(op) ==
  UNION {{<<i, j>> : j \in 1..Len(op.sels[i].sels)} :
           i \in {k \in 1..Len(op.sels) : op.sels[k].kind = "Field"}}
ChildAt(op, p) == op.sels[p[1]].sels[p[2]]
Precedes(p, q) == p[1] < q[1] \/ (p[1] = q[1] /\ p[2] < q[2])
RECURSIVE SumOfTerms(_, _)
SumOfTerms(op, places) ==
  IF places = {} THEN 0
  ELSE LET p == CHOOSE q \in places : TRUE
       IN  MutationTerm(ChildAt(op, p)).val + SumOfTerms(op, places \ {p})
ExpectedMutationScore(op) ==
  LET failing == {p \in ChildPlaces(op) : MutationTerm(ChildAt(op, p)).err # NoError}
  IN  IF failing = {} THEN Ret(10 + SumOfTerms(op, ChildPlaces(op)), NoError)
      ELSE LET p == CHOOSE q \in failing : \A r \in failing \ {q} : Precedes(q, r)
           IN  Ret(0, MutationTerm(ChildAt(op, p)).err)

\* C9: a mutation scores 10 plus, for every immediate child x of every
\* top-level Field, the score of x's selection set (x a Field) or of the
\* fragment (x a spread the registry resolves) and 0 otherwise; top-level
\* selections that are no Fields add nothing and no overhead of 1 is charged
\* for the top-level field or for x.
C9_MutationScoresChildrenOfPayload ==
  /\ pc # "parsed" =>
       \A op \in MutationOperations :
         calculateMutationComplexity(op.sels, state) = ExpectedMutationScore(op)
  /\ (pc = "returned" /\ Len(doc.operations) = 1 /\ MutationOperations # {}) =>
       result = ExpectedMutationScore(doc.operations[1])

\* a mutation whose payload field has a Field child with a selection set that
\* costs something has returned more than the base
C9_Witness ==
  /\ pc = "returned"
  /\ Len(doc.operations) = 1
  /\ MutationOperations # {}
  /\ \E p \in ChildPlaces(doc.operations[1]) :
       /\ ChildAt(doc.operations[1], p).kind = "Field"
       /\ MutationTerm(ChildAt(doc.operations[1], p)).val >= 1
  /\ result.err = NoError
  /\ result.val > 10
  /\ result = ExpectedMutationScore(doc.operations[1])

\* ---- C10 -----------------------------------------------------------------------------
\* a runtime value that is numeric-like: a native integer, a decimal number
\* that is an integer, a float
IsNumericLike(v) ==
  \/ v.type \in {"int", "float64", "float32"}
  \/ v.type = "json.Number" /\ Atoi(v.text).ok
\* the integer it equals, or truncates to
IntegerOf(v) ==
  IF v.type = "json.Number" THEN Atoi(v.text).val ELSE Truncate(v.scaled)
CountIsNumericVariable(g) ==
  /\ FirstPaginationArg(g).value.kind = "Variable"
  /\ FirstPaginationArg(g).value.name \in DOMAIN variables
  /\ IsNumericLike(variables[FirstPaginationArg(g).value.name])

\* C10 as claimed: a connection whose count is a variable present with a
\* numeric-like value equal to the integer n (a native integer, a decimal
\* number, a float that truncates to n) adds n*c + 2.
C10_NumericVariableGivesCount ==
  pc # "parsed" =>
    \A op \in Operations : \A g \in ScoredInOperation(op) :
      (IsConnectionField(g) /\ CountIsNumericVariable(g) /\ Score(g.sels).err = NoError) =>
        Contribution(g) =
          Ret((IntegerOf(variables[FirstPaginationArg(g).value.name]) * Score(g.sels).val) + 2,
              NoError)

\* ---- C11 -----------------------------------------------------------------------------
\* a spread the registry does not resolve
IsMissingFragment(g) == g.kind = "FragmentSpread" /\ g.name \notin DOMAIN fragUsed
\* the deciding argument is a literal that is no base-10 integer
CountIsNonIntegerLiteral(g) ==
  LET v == FirstPaginationArg(g).value
  IN  /\ v.kind # "Variable"
      /\ ~(v.kind = "PrimitiveValue" /\ Atoi(v.text).ok)
\* the deciding argument is a variable the mapping has, with a value of a
\* type that is no number
CountIsNonNumericVariable(g) ==
  LET v == FirstPaginationArg(g).value
  IN  /\ v.kind = "Variable"
      /\ v.name \in DOMAIN variables
      /\ variables[v.name].type \notin {"json.Number", "float64", "float32", "int"}
DegradedConnection(g) ==
  IsConnectionField(g) /\ (CountIsNonIntegerLiteral(g) \/ CountIsNonNumericVariable(g))

\* C11 as claimed: a spread of an unknown fragment, a first/last literal that
\* is no base-10 integer and a first/last variable of a non-numeric type raise
\* no error, and each such selection adds zero to the score.
C11_AnomaliesAddZero ==
  pc # "parsed" =>
    \A op \in Operations : \A g \in ScoredInOperation(op) :
      /\ IsMissingFragment(g) => Contribution(g) = Ret(0, NoError)
      /\ (DegradedConnection(g) /\ Score(g.sels).err = NoError) =>
           Contribution(g) = Ret(0, NoError)

\* C11 as amended: none of the three raises an error; the unknown spread adds
\* zero, also as an immediate child of a mutation's top-level field; for the
\* literal and the variable the item count is zero, so that the field adds
\* the connection constant 2 whatever its selection set scores, and a query
\* of one such selection returns 0, respectively 2.
C11_AnomaliesDegradeToZeroCount ==
  /\ pc # "parsed" =>
       /\ \A op \in Operations : \A g \in ScoredInOperation(op) :
            /\ IsMissingFragment(g) => Contribution(g) = Ret(0, NoError)
            /\ DegradedConnection(g) =>
                 /\ getConnectionNodeCount(g.args, variables) = Ret(0, NoError)
                 /\ Score(g.sels).err = NoError =>
                      Contribution(g) = Ret(connectionComplexity, NoError)
                 /\ Score(g.sels).err # NoError =>
                      Contribution(g) = Ret(0, Score(g.sels).err)
       /\ \A op \in MutationOperations : \A p \in ChildPlaces(op) :
            IsMissingFragment(ChildAt(op, p)) =>
              MutationChildComplexity(ChildAt(op, p), state) = Ret(0, NoError)
  /\ (pc = "returned" /\ SingleQuerySelection) =>
       /\ IsMissingFragment(TheSelection) => result = Ret(0, NoError)
       /\ (DegradedConnection(TheSelection) /\ Score(TheSelection.sels).err = NoError) =>
            result = Ret(connectionComplexity, NoError)

\* a query of one connection whose count is a variable holding a string, over
\* children that cost something, has returned 2
C11_Witness ==
  /\ pc = "returned"
  /\ SingleQuerySelection
  /\ IsConnectionField(TheSelection)
  /\ CountIsNonNumericVariable(TheSelection)
  /\ Score(TheSelection.sels).val >= 1
  /\ result = Ret(connectionComplexity, NoError)

\* ---- C12 -----------------------------------------------------------------------------
\* the call has returned, from the parse or from the loop
Returned == pc \in {"returned", "rejected"}

\* C12: whenever GetQueryComplexity returns an error, the parse error or the
\* error of an operation at any depth, the integer it returns is 0: what the
\* earlier operations added is not returned; the scoring functions return 0
\* with every error too.
C12_ErrorReturnsZero ==
  /\ (Returned /\ result.err # NoError) => result.val = 0
  /\ pc = "rejected" => result = Ret(0, parseErr)
  /\ pc \in {"scoring", "returned"} =>
       \A op \in Operations :
         OperationComplexity(op, state).err # NoError =>
           OperationComplexity(op, state).val = 0

\* the second operation has failed after the first one had added to the
\* total, and 0 is returned with the error
C12_Witness ==
  /\ pc = "returned"
  /\ result.err # NoError
  /\ opIndex > 1
  /\ complexity >= 1
  /\ result.val = 0

\* ---- C13 -----------------------------------------------------------------------------
\* what the operation at place i is worth: scoreSelections for a query,
\* scoreMutation for a mutation, nothing for a subscription
OperationTerm(i) ==
  LET op == doc.operations[i]
  IN  IF op.type = "query" THEN Score(op.sels)
      ELSE IF op.type = "mutation" THEN calculateMutationComplexity(op.sels, state)
      ELSE Ret(0, NoError)
RECURSIVE SumOfOperationTerms(_)
SumOfOperationTerms(places) ==
  IF places = {} THEN 0
  ELSE LET i == CHOOSE k \in places : TRUE
       IN  OperationTerm(i).val + SumOfOperationTerms(places \ {i})
FailingOperations == {i \in 1..Len(doc.operations) : OperationTerm(i).err # NoError}
ExpectedTotal ==
  IF FailingOperations = {}
    THEN Ret(SumOfOperationTerms(1..Len(doc.operations)), NoError)
    ELSE Ret(0, OperationTerm(CHOOSE i \in FailingOperations :
                                \A k \in FailingOperations : i <= k).err)
\* the operations that are no subscriptions, in their order
RECURSIVE WithoutSubscriptions(_)
WithoutSubscriptions(ops) ==
  IF ops = <<>> THEN <<>>
  ELSE IF Head(ops).type = "subscription" THEN WithoutSubscriptions(Tail(ops))
  ELSE <<Head(ops)>> \o WithoutSubscriptions(Tail(ops))
IsSubscription(op) == op.type = "subscription"

\* C13: the total returned is the sum over the operations, in their order, of
\* the score of the selections of each query, the mutation score of each
\* mutation and 0 for each subscription, or the error of the first operation
\* that fails; what a subscription contains changes neither the result nor
\* raises an error: the result is that of the document without its
\* subscriptions.
C13_TotalIsSumOverOperations ==
  pc = "returned" =>
    /\ result = ExpectedTotal
    /\ result = GetQueryComplexity(
                  ExecutableDefinition(WithoutSubscriptions(doc.operations), doc.fragments),
                  variables, fieldOverrides)
    /\ (\A op \in Operations : IsSubscription(op)) => result = Ret(0, NoError)

\* a document of a query that costs something and of a subscription with a
\* connection whose count is a variable the mapping lacks has returned the
\* score of the query
C13_Witness ==
  /\ pc = "returned"
  /\ Len(doc.operations) = 2
  /\ \E i \in 1..2 :
       /\ doc.operations[i].type = "query"
       /\ Score(doc.operations[i].sels).val >= 1
       /\ result = Score(doc.operations[i].sels)
  /\ \E op \in Operations :
       /\ IsSubscription(op)
       /\ Score(op.sels).err # NoError

\* ---- C14 -----------------------------------------------------------------------------
\* the text of a comment line: what follows the '#', less one space
CommentLineText(body) == IF body # <<>> /\ Head(body) = " " THEN Tail(body) ELSE body
CommentLinesJoined ==
  JoinLines([i \in 1..Len(source.lines) |-> CommentLineText(source.lines[i])])
\* a string literal follows the comments
StringFollows == source.literal.kind \in {"string", "block", "adjacent"}
\* its value
LiteralValue ==
  IF source.literal.kind = "block" THEN blockString(source.literal.value)
  ELSE source.literal.value

\* C14 as claimed: after ConsumeWhitespace on a fresh lexer, DescComment
\* returns, with useStringDescriptions unset, the texts of the comment lines
\* before the next token joined by newlines (commas ignored, one space after
\* '#' dropped), a string literal following or not; with it set, the value of
\* the string literal that follows (block-string-normalized when
\* triple-quoted), or the empty string when none follows, whatever the
\* comments.
C14_DescCommentByMode ==
  pc = "described" =>
    IF source.useStringDescriptions
      THEN description = (IF StringFollows THEN LiteralValue ELSE <<>>)
      ELSE description = CommentLinesJoined

\* ---- C15 -----------------------------------------------------------------------------
\* the places of the arguments named first or last
PaginationPlaces(args) == {i \in 1..Len(args) : args[i].name \in {"first", "last"}}
\* args without the pagination arguments that come after the first one
RECURSIVE DropLaterPagination(_, _)
DropLaterPagination(args, seen) ==
  IF args = <<>> THEN <<>>
  ELSE IF Head(args).name \in {"first", "last"}
    THEN (IF seen THEN <<>> ELSE <<Head(args)>>) \o DropLaterPagination(Tail(args), TRUE)
  ELSE <<Head(args)>> \o DropLaterPagination(Tail(args), seen)
WithFirstPaginationOnly(g) == [g EXCEPT !.args = DropLaterPagination(g.args, FALSE)]
HasLaterPagination(g) == Cardinality(PaginationPlaces(g.args)) >= 2

\* C15: the count of a connection is that of its first argument named first
\* or last; the pagination arguments after it change neither the count nor
\* what the field adds and raise no error, not even as a variable the mapping
\* lacks: the field scores as it does without them.
C15_FirstPaginationArgumentDecides ==
  /\ pc # "parsed" =>
       \A op \in Operations : \A g \in ScoredInOperation(op) :
         IsConnectionField(g) =>
           /\ getConnectionNodeCount(g.args, variables)
                = getConnectionNodeCount(WithFirstPaginationOnly(g).args, variables)
           /\ Contribution(g) = Contribution(WithFirstPaginationOnly(g))
           /\ FirstPaginationArg(g).value.kind = "PrimitiveValue" =>
                getConnectionNodeCount(g.args, variables)
                  = Ret(Atoi(FirstPaginationArg(g).value.text).val, NoError)
  /\ (pc = "returned" /\ SingleQuerySelection /\ IsConnectionField(TheSelection)) =>
       result = GetQueryComplexity(
                  ExecutableDefinition(
                    <<Operation("query", <<WithFirstPaginationOnly(TheSelection)>>)>>,
                    doc.fragments),
                  variables, fieldOverrides)

\* a query of one connection with the count 1 and, behind it, a second
\* pagination argument that is a variable the mapping lacks has returned
\* 1*c + 2
C15_Witness ==
  /\ pc = "returned"
  /\ SingleQuerySelection
  /\ IsConnectionField(TheSelection)
  /\ HasLaterPagination(TheSelection)
  /\ HasAbsentVariableCount(TheSelection)
  /\ ~CountIsAbsentVariable(TheSelection)
  /\ Score(TheSelection.sels).val >= 1
  /\ result = Ret(Score(TheSelection.sels).val + 2, NoError)

\* ---- C16 -----------------------------------------------------------------------------
\* the rule of calculateSelectionComplexity that applies to the Field g: the
\* first one, in the order of the claim, whose condition g meets
RuleOf(g) ==
  IF Overridden(g) THEN "override"
  ELSE IF g.name = "pageInfo" THEN "pageInfo"
  ELSE IF g.name = "edges" THEN "edges"
  ELSE IF HasPaginationArg(g) THEN "connection"
  ELSE "generic"
\* what the rule makes of g
RuleResult(g) ==
  LET c == Score(g.sels)
      n == getConnectionNodeCount(g.args, variables)
  IN  CASE RuleOf(g) = "override" -> Ret(fieldOverrides[g.name], NoError)
        [] RuleOf(g) = "pageInfo" -> Ret(0, NoError)
        [] RuleOf(g) = "edges" -> c
        [] RuleOf(g) = "connection" ->
             IF c.err # NoError THEN Ret(0, c.err)
             ELSE IF n.err # NoError THEN Ret(0, n.err)
             ELSE Ret((n.val * c.val) + 2, NoError)
        [] RuleOf(g) = "generic" ->
             IF ~g.hasSel THEN Ret(0, NoError)
             ELSE IF c.err # NoError THEN Ret(0, c.err)
             ELSE Ret(c.val + 1, NoError)

\* C16: calculateSelectionComplexity tries its rules for a Field in the order
\* override, pageInfo, edges, connection, generic, and the first that fits is
\* the only one applied: an overridden field adds its override whatever its
\* name and arguments; a field named edges without override adds the score of
\* its selection set, with no constant and no multiplication, first/last or
\* not; a field named pageInfo without override adds 0, first/last or not.
C16_RulesInFixedOrder ==
  /\ pc # "parsed" =>
       \A op \in Operations : \A g \in ScoredInOperation(op) :
         g.kind = "Field" =>
           /\ Contribution(g) = RuleResult(g)
           /\ Overridden(g) => Contribution(g) = Ret(fieldOverrides[g.name], NoError)
           /\ (~Overridden(g) /\ g.name = "edges") => Contribution(g) = Score(g.sels)
           /\ (~Overridden(g) /\ g.name = "pageInfo") => Contribution(g) = Ret(0, NoError)
  /\ (pc = "returned" /\ SingleQuerySelection /\ TheSelection.kind = "Field") =>
       result = RuleResult(TheSelection)

\* a query of one field named edges with a literal first/last argument, over
\* children that cost something, has returned just the score of the children
C16_Witness ==
  /\ pc = "returned"
  /\ SingleQuerySelection
  /\ TheSelection.kind = "Field"
  /\ TheSelection.name = "edges"
  /\ ~Overridden(TheSelection)
  /\ HasPaginationArg(TheSelection)
  /\ getConnectionNodeCount(TheSelection.args, variables).val >= 2
  /\ Score(TheSelection.sels).val >= 1
  /\ result = Score(TheSelection.sels)

\* ---- C17 -----------------------------------------------------------------------------
FragmentNames == {doc.fragments[i].name : i \in 1..Len(doc.fragments)}
\* the place of the last definition of the name
LastDefinition(name) ==
  CHOOSE i \in 1..Len(doc.fragments) :
    /\ doc.fragments[i].name = name
    /\ \A j \in (i + 1)..Len(doc.fragments) : doc.fragments[j].name # name
HasDuplicateFragment ==
  \E i, j \in 1..Len(doc.fragments) : i < j /\ doc.fragments[i].name = doc.fragments[j].name
\* the last definition of each name and nothing else
RECURSIVE LastDefinitionsOnly(_)
LastDefinitionsOnly(fragments) ==
  IF fragments = <<>> THEN <<>>
  ELSE IF \E j \in 2..Len(fragments) : fragments[j].name = Head(fragments).name
    THEN LastDefinitionsOnly(Tail(fragments))
  ELSE <<Head(fragments)>> \o LastDefinitionsOnly(Tail(fragments))

\* C17: the registry has one entry for each fragment name, the selections of
\* the last definition of that name; every spread of the name, in whatever
\* operation, is scored with them: the result is that of the document without
\* the earlier definitions, and a query that is one spread returns the score
\* of the last definition.
C17_LastFragmentDefinitionWins ==
  /\ pc \in {"scoring", "returned"} =>
       /\ DOMAIN fragUsed = FragmentNames
       /\ \A name \in FragmentNames : fragUsed[name] = doc.fragments[LastDefinition(name)].sels
       /\ \A op \in Operations : \A g \in ScoredInOperation(op) :
            (g.kind = "FragmentSpread" /\ g.name \in FragmentNames) =>
              Contribution(g) = Score(doc.fragments[LastDefinition(g.name)].sels)
  /\ pc = "returned" =>
       /\ result = GetQueryComplexity(
                     ExecutableDefinition(doc.operations, LastDefinitionsOnly(doc.fragments)),
                     variables, fieldOverrides)
       /\ (SingleQuerySelection /\ TheSelection.kind = "FragmentSpread"
             /\ TheSelection.name \in FragmentNames) =>
            result = Score(doc.fragments[LastDefinition(TheSelection.name)].sels)

\* a query of one spread of a fragment defined twice, the definitions of
\* different scores, has returned the score of the second
C17_Witness ==
  /\ pc = "returned"
  /\ SingleQuerySelection
  /\ TheSelection.kind = "FragmentSpread"
  /\ Len(doc.fragments) = 2
  /\ doc.fragments[1].name = TheSelection.name
  /\ doc.fragments[2].name = TheSelection.name
  /\ Score(doc.fragments[1].sels).err = NoError
  /\ Score(doc.fragments[2].sels).err = NoError
  /\ Score(doc.fragments[1].sels).val < Score(doc.fragments[2].sels).val
  /\ result = Score(doc.fragments[2].sels)

\* ---- C18 -----------------------------------------------------------------------------
\* every spread that stands anywhere in sels
RECURSIVE SpreadsIn(_)
SpreadsIn(sels) ==
  UNION {(IF sels[i].kind = "FragmentSpread" THEN {sels[i].name} ELSE {})
           \cup SpreadsIn(sels[i].sels) : i \in 1..Len(sels)}
\* the fragments a fragment spreads, directly or through others
RECURSIVE SpreadsTransitively(_, _)
SpreadsTransitively(names, fuel) ==
  LET next == names \cup UNION {SpreadsIn(fragUsed[n]) : n \in names \cap DOMAIN fragUsed}
  IN  IF fuel = 0 \/ next = names THEN names ELSE SpreadsTransitively(next, fuel - 1)
SpreadsItself(name) ==
  name \in SpreadsTransitively(SpreadsIn(fragUsed[name]), Cardinality(DOMAIN fragUsed))
NoFragmentCycle == \A name \in DOMAIN fragUsed : ~SpreadsItself(name)

\* the traversal of sels in the order of the evaluation, with the fragments
\* that are being expanded: "done" when it comes to its end, "failed" when a
\* connection's count is a variable the mapping lacks, "cycle" when it comes
\* to a spread of a fragment that is being expanded
RECURSIVE Walk(_, _)
Walk(sels, expanding) ==
  IF sels = <<>> THEN "done"
  ELSE LET g == Head(sels)
           first ==
             CASE g.kind = "Field" ->
                    IF Overridden(g) \/ g.name = "pageInfo" THEN "done"
                    ELSE LET below == Walk(g.sels, expanding)
                         IN  IF below # "done" THEN below
                             ELSE IF IsConnectionField(g) /\ CountIsAbsentVariable(g)
                               THEN "failed"
                             ELSE "done"
               [] g.kind = "FragmentSpread" ->
                    IF g.name \notin DOMAIN fragUsed THEN "done"
                    ELSE IF g.name \in expanding THEN "cycle"
                    ELSE Walk(fragUsed[g.name], expanding \cup {g.name})
               [] OTHER -> Walk(g.sels, expanding)
       IN  IF first # "done" THEN first ELSE Walk(Tail(sels), expanding)
\* the traversal of the children of a mutation's top-level fields
RECURSIVE WalkChildren(_)
WalkChildren(children) ==
  IF children = <<>> THEN "done"
  ELSE LET y == Head(children)
           first ==
             CASE y.kind = "Field" -> Walk(y.sels, {})
               [] y.kind = "FragmentSpread" /\ y.name \in DOMAIN fragUsed ->
                    Walk(fragUsed[y.name], {y.name})
               [] OTHER -> "done"
       IN  IF first # "done" THEN first ELSE WalkChildren(Tail(children))
RECURSIVE WalkMutation(_)
WalkMutation(sels) ==
  IF sels = <<>> THEN "done"
  ELSE LET first == IF Head(sels).kind = "Field" THEN WalkChildren(Head(sels).sels)
                    ELSE "done"
       IN  IF first # "done" THEN first ELSE WalkMutation(Tail(sels))
RECURSIVE WalkOperations(_)
WalkOperations(ops) ==
  IF ops = <<>> THEN "done"
  ELSE LET first == CASE Head(ops).type = "query" -> Walk(Head(ops).sels, {})
                      [] Head(ops).type = "mutation" -> WalkMutation(Head(ops).sels)
                      [] OTHER -> "done"
       IN  IF first # "done" THEN first ELSE WalkOperations(Tail(ops))

\* the selections of the first operation lead to a spread of a fragment that
\* spreads itself, past no overridden field and no pageInfo
ReachesFragmentCycle ==
  /\ doc.operations # <<>>
  /\ \E g \in ScoredInOperation(doc.operations[1]) :
       /\ g.kind = "FragmentSpread"
       /\ g.name \in DOMAIN fragUsed
       /\ \E h \in Scored(fragUsed[g.name], MaxStack) :
            h.kind = "FragmentSpread" /\ h.name = g.name
NeverReturns == result.err = StackOverflow

\* C18 as claimed: scoring ends, with a score or an error, when no fragment
\* spreads itself directly or through others; when the traversal of a query
\* or a mutation reaches a fragment that spreads itself, past no overridden
\* field and no pageInfo, the evaluation recurses without end and returns
\* nothing.
C18_CycleReachedNeverReturns ==
  pc = "returned" =>
    /\ NoFragmentCycle => ~NeverReturns
    /\ ReachesFragmentCycle => NeverReturns

\* C18 as amended: scoring ends when no fragment spreads itself; otherwise it
\* recurses without end exactly when the traversal, going through the
\* selections in their order and through the selection set of a connection
\* before its count, comes to a spread of a fragment it is expanding before
\* it comes to a connection whose count is a variable the mapping lacks; when
\* that connection comes first, the undefined-variable error is returned.
C18_CycleBeforeAnyErrorNeverReturns ==
  pc = "returned" =>
    /\ NoFragmentCycle => ~NeverReturns
    /\ NeverReturns <=> WalkOperations(doc.operations) = "cycle"
    /\ IsUndefinedVariableError(result.err) <=> WalkOperations(doc.operations) = "failed"
    /\ result.err = NoError <=> WalkOperations(doc.operations) = "done"

\* a query has spread a fragment that holds a connection with a defined count
\* and then spreads itself: the recursion has not ended
C18_Witness ==
  /\ pc = "returned"
  /\ ReachesFragmentCycle
  /\ doc.operations[1].type = "query"
  /\ \E g \in ScoredInOperation(doc.operations[1]) :
       IsConnectionField(g) /\ ~CountIsAbsentVariable(g)
  /\ WalkOperations(doc.operations) = "cycle"
  /\ NeverReturns

\* ---- C19 -----------------------------------------------------------------------------
\* the comment buffer as ConsumeWhitespace left it for DescComment
AccumulatedComment ==
  ConsumeWhitespace(NewLexer(source.definition, source.useStringDescriptions)).comment
\* what is read as a block string when a quoted string has a quote right
\* behind it: the source behind that quote, to its end
ReadBehindAdjacentQuote ==
  blockString(Tail(Quoted(<<"b">>)) \o <<"\n", "t", "y", "p", "e", " ", ReplacementChar>>)

AtMinus == Peek(tokens.toks) = "-"
\* the token behind the '-'
BehindMinus == Advance(tokens.toks)
IsSyntaxError(err) == Len(err) = 2 /\ err[1] = "syntax error: "

\* C20 as claimed: ParseLiteral accepts a '-' only before an Int or a Float
\* token and returns the PrimitiveValue of that kind whose text is "-" and the
\* text of the token; before any other token, and at the end of the input, it
\* raises a SyntaxError.
C20_MinusOnlyBeforeNumber ==
  (pc = "literal" /\ AtMinus) =>
    IF Peek(BehindMinus) \in {"Int", "Float"}
      THEN /\ literal.err = NoError
           /\ literal.value =
                PrimitiveValue(Peek(BehindMinus), <<"-">> \o TokenText(BehindMinus))
      ELSE IsSyntaxError(literal.err)


\* ---- C21 -----------------------------------------------------------------------------
\* sels without the inline fragments among them
RECURSIVE WithoutInlineFragments(_)
WithoutInlineFragments(sels) ==
  IF sels = <<>> THEN <<>>
  ELSE IF Head(sels).kind = "InlineFragment" THEN WithoutInlineFragments(Tail(sels))
  ELSE <<Head(sels)>> \o WithoutInlineFragments(Tail(sels))
\* the selections of a mutation without the inline fragments that are
\* immediate children of its top-level fields
RECURSIVE WithoutPayloadInlineFragments(_)
WithoutPayloadInlineFragments(sels) ==
  IF sels = <<>> THEN <<>>
  ELSE <<IF Head(sels).kind = "Field"
           THEN [Head(sels) EXCEPT !.sels = WithoutInlineFragments(Head(sels).sels)]
           ELSE Head(sels)>>
         \o WithoutPayloadInlineFragments(Tail(sels))
\* sels with every inline fragment replaced by the selections it contains
RECURSIVE InlineFragmentsSpliced(_)
InlineFragmentsSpliced(sels) ==
  IF sels = <<>> THEN <<>>
  ELSE (CASE Head(sels).kind = "InlineFragment" -> InlineFragmentsSpliced(Head(sels).sels)
          [] Head(sels).kind = "Field" ->
               <<[Head(sels) EXCEPT !.sels = InlineFragmentsSpliced(Head(sels).sels)]>>
          [] OTHER -> <<Head(sels)>>)
         \o InlineFragmentsSpliced(Tail(sels))
\* the operations with the payload inline fragments of the mutations dropped
\* and the inline fragments of the queries spliced
RECURSIVE InlineFragmentsResolved(_)
InlineFragmentsResolved(ops) ==
  IF ops = <<>> THEN <<>>
  ELSE <<CASE Head(ops).type = "mutation" ->
                Operation("mutation", WithoutPayloadInlineFragments(Head(ops).sels))
           [] Head(ops).type = "query" ->
                Operation("query", InlineFragmentsSpliced(Head(ops).sels))
           [] OTHER -> Head(ops)>>
         \o InlineFragmentsResolved(Tail(ops))
\* the inline fragments that are immediate children of the top-level fields
PayloadInlineFragments(op) ==
  UNION {{op.sels[i].sels[j] :
            j \in {k \in 1..Len(op.sels[i].sels) :
                     op.sels[i].sels[k].kind = "InlineFragment"}} :
           i \in {k \in 1..Len(op.sels) : op.sels[k].kind = "Field"}}

\* C21: an inline fragment that is an immediate child of a top-level field of
\* a mutation is skipped: whatever it contains, the result is that of the
\* document without it, and a mutation whose top-level fields have inline
\* fragments only scores the base cost with no error; an inline fragment of a
\* query is scored as the selections it contains are.
C21_PayloadInlineFragmentSkipped ==
  pc = "returned" =>
    /\ result = GetQueryComplexity(
                  ExecutableDefinition(InlineFragmentsResolved(doc.operations),
                                       doc.fragments),
                  variables, fieldOverrides)
    /\ \A op \in MutationOperations :
         /\ calculateMutationComplexity(op.sels, state)
              = calculateMutationComplexity(WithoutPayloadInlineFragments(op.sels), state)
         /\ (\A i \in 1..Len(op.sels) :
               /\ op.sels[i].kind = "Field"
               /\ WithoutInlineFragments(op.sels[i].sels) = <<>>)
              => calculateMutationComplexity(op.sels, state) = Ret(mutationComplexity, NoError)
    /\ \A op \in QueryOperations :
         Score(op.sels) = Score(InlineFragmentsSpliced(op.sels))

\* a mutation has returned its base cost although the inline fragment under
\* its top-level field holds a connection whose count is a variable the
\* mapping lacks, which fails when it is scored
C21_Witness ==
  /\ pc = "returned"
  /\ Len(doc.operations) = 1
  /\ doc.operations[1].type = "mutation"
  /\ \E g \in PayloadInlineFragments(doc.operations[1]) :
       IsUndefinedVariableError(Score(g.sels).err)
  /\ result = Ret(mutationComplexity, NoError)

====
